---------------------------- MODULE Spec2Model ----------------------------
(***************************************************************************)
(* Verification model of the travel-agent backend:                         *)
(*   - the flight / hotel search tool adapters (app/agents/tools.py),      *)
(*   - the request schemas they build (app/models/flight.py, hotel.py),    *)
(*   - the location resolver (tools.py, services/serpapi_service.py),      *)
(*   - one chat turn of TravelAgent.process_message (travel_agent.py).     *)
(*                                                                         *)
(* Python str values are modelled as sequences of one-character strings,   *)
(* so that len(), isalpha(), lower(), upper(), the "in" substring test and *)
(* strptime() are computed character by character as the code computes     *)
(* them.  Optional values are sequences of length at most one:             *)
(* None is <<>> and a present value v is <<v>>.                            *)
(***************************************************************************)
EXTENDS Integers, Sequences, FiniteSets, TLC

VARIABLES
    env_serpapi_key,    \* os.environ holds a non-empty SERPAPI_API_KEY
    serpapi_service,    \* tools.serpapi_service: <<>> (None) or <<instance>>
    hotel_service,      \* hotel_service._hotel_service_instance, likewise
    call,               \* the arguments the current operation is invoked with
    outcome,            \* what the operation returned or raised
    provider_log,       \* provider queries issued by the current operation
    pc,                 \* position of TravelAgent.process_message in its turn
    request,            \* the ChatRequest of the turn
    submitted,          \* thread id handed to the agent runtime
    messages,           \* result["messages"] returned by the agent runtime
    reply,              \* response_content (content of the last AIMessage)
    scan_pos,           \* number of tool calls already scanned
    extracted_params,   \* the TravelSearchParams accumulator, <<>> when None
    response,           \* the ChatResponse of the turn, <<>> before it returns
    process_environ,    \* the two API keys of os.environ when the process started
    os_environ,         \* the two API keys of os.environ now (None: not set)
    settings,           \* core.config.settings: <<>> (None) or <<instance>>
    http_exchange,      \* the last HTTP request served and its answer
    travel_agent,       \* travel_agent._travel_agent: <<>> (None) or <<instance>>
    tool_threads,       \* per worker thread: its position in get_*_service()
    clients_made,       \* per domain: provider clients constructed so far
    rate_config,        \* limit and window the rate limiter is called with
    clock,              \* time.time()
    requests,           \* rate_limiter.requests: key -> list of timestamps
    rate_call           \* the last is_allowed call and what it returned

vars == <<env_serpapi_key, serpapi_service, hotel_service, call, outcome,
          provider_log, pc, request, submitted, messages, reply, scan_pos,
          extracted_params, response, process_environ, os_environ, settings,
          http_exchange, travel_agent, tool_threads, clients_made, rate_config,
          clock, requests, rate_call>>

apiVars == <<process_environ, os_environ, settings, http_exchange, travel_agent>>

threadVars == <<tool_threads, clients_made>>

rateVars == <<rate_config, clock, requests, rate_call>>

toolVars == <<env_serpapi_key, serpapi_service, hotel_service, call, outcome,
              provider_log>>

turnVars == <<pc, request, submitted, messages, reply, scan_pos,
              extracted_params, response>>

None == <<>>
Some(v) == <<v>>
IsNone(o) == o = <<>>
Val(o) == o[1]

Range(s) == {s[i] : i \in 1..Len(s)}

(***************************************************************************)
(* Python str primitives                                                   *)
(***************************************************************************)
UpperCase ==
    <<"A", "B", "C", "D", "E", "F", "G", "H", "I", "J", "K", "L", "M",
      "N", "O", "P", "Q", "R", "S", "T", "U", "V", "W", "X", "Y", "Z">>

LowerCase ==
    <<"a", "b", "c", "d", "e", "f", "g", "h", "i", "j", "k", "l", "m",
      "n", "o", "p", "q", "r", "s", "t", "u", "v", "w", "x", "y", "z">>

Digits == <<"0", "1", "2", "3", "4", "5", "6", "7", "8", "9">>

IndexIn(c, alphabet) == CHOOSE i \in 1..Len(alphabet) : alphabet[i] = c

UpperSet == Range(UpperCase)
LowerSet == Range(LowerCase)
LetterSet == UpperSet \cup LowerSet
DigitSet == Range(Digits)

\* str.lower() / str.upper() of one character
LowerChar(c) == IF c \in UpperSet THEN LowerCase[IndexIn(c, UpperCase)] ELSE c
UpperChar(c) == IF c \in LowerSet THEN UpperCase[IndexIn(c, LowerCase)] ELSE c

\* str.lower() / str.upper()
StrLower(s) == [i \in 1..Len(s) |-> LowerChar(s[i])]
StrUpper(s) == [i \in 1..Len(s) |-> UpperChar(s[i])]

\* str.isalpha(): non-empty and every character a letter
IsAlpha(s) == Len(s) > 0 /\ \A i \in 1..Len(s) : s[i] \in LetterSet

\* Python's  needle in hay  for str
Contains(hay, needle) ==
    \E i \in 0..(Len(hay) - Len(needle)) :
        \A k \in 1..Len(needle) : hay[i + k] = needle[k]

IsDigit(c) == c \in DigitSet
DigitVal(c) == IndexIn(c, Digits) - 1

(***************************************************************************)
(* datetime.strptime(s, "%Y-%m-%d").date()                                 *)
(***************************************************************************)
IsLeap(y) == (y % 4 = 0 /\ y % 100 # 0) \/ y % 400 = 0

DaysInMonth(y, m) ==
    IF m = 2 THEN (IF IsLeap(y) THEN 29 ELSE 28)
    ELSE IF m \in {4, 6, 9, 11} THEN 30 ELSE 31

\* the %m directive: 1[0-2] | 0[1-9] | [1-9]
MonthToken(t) ==
    \/ Len(t) = 2 /\ t[1] = "1" /\ t[2] \in {"0", "1", "2"}
    \/ Len(t) = 2 /\ t[1] = "0" /\ IsDigit(t[2]) /\ t[2] # "0"
    \/ Len(t) = 1 /\ IsDigit(t[1]) /\ t[1] # "0"

\* the %d directive: 3[01] | [12]\d | 0[1-9] | [1-9] | " "[1-9]
DayToken(t) ==
    \/ Len(t) = 2 /\ t[1] = "3" /\ t[2] \in {"0", "1"}
    \/ Len(t) = 2 /\ t[1] \in {"1", "2"} /\ IsDigit(t[2])
    \/ Len(t) = 2 /\ t[1] \in {"0", " "} /\ IsDigit(t[2]) /\ t[2] # "0"
    \/ Len(t) = 1 /\ IsDigit(t[1]) /\ t[1] # "0"

TokenVal(t) ==
    IF Len(t) = 1 THEN DigitVal(t[1])
    ELSE (IF t[1] = " " THEN 0 ELSE 10 * DigitVal(t[1])) + DigitVal(t[2])

\* Where the month token ends: the second "-" of the string, 0 if none fits.
MonthEnd(s) ==
    IF Len(s) >= 7 /\ s[7] = "-" THEN 6
    ELSE IF Len(s) >= 8 /\ s[8] = "-" THEN 7
    ELSE 0

\* Some([y, m, d]) when s parses, None when strptime raises ValueError.
ParseDate(s) ==
    LET me == MonthEnd(s) IN
    IF /\ Len(s) >= 8
       /\ \A i \in 1..4 : IsDigit(s[i])
       /\ s[5] = "-"
       /\ me # 0
       /\ MonthToken(SubSeq(s, 6, me))
       /\ DayToken(SubSeq(s, me + 2, Len(s)))
    THEN LET y == 1000 * DigitVal(s[1]) + 100 * DigitVal(s[2])
                  + 10 * DigitVal(s[3]) + DigitVal(s[4])
             m == TokenVal(SubSeq(s, 6, me))
             d == TokenVal(SubSeq(s, me + 2, Len(s)))
         IN  IF y >= 1 /\ d <= DaysInMonth(y, m)
             THEN Some([y |-> y, m |-> m, d |-> d])
             ELSE None
    ELSE None

\* datetime.date ordering
DateLE(a, b) ==
    \/ a.y < b.y
    \/ a.y = b.y /\ a.m < b.m
    \/ a.y = b.y /\ a.m = b.m /\ a.d <= b.d

DateLT(a, b) == DateLE(a, b) /\ a # b

\* Could not resolve departure location: 
ErrResolveDeparture ==
    <<"C", "o", "u", "l", "d", " ", "n", "o", "t", " ", "r", "e", "s", "o", "l", "v", "e", " ",
      "d", "e", "p", "a", "r", "t", "u", "r", "e", " ", "l", "o", "c", "a", "t", "i", "o", "n",
      ":", " ">>
\* Could not resolve arrival location: 
ErrResolveArrival ==
    <<"C", "o", "u", "l", "d", " ", "n", "o", "t", " ", "r", "e", "s", "o", "l", "v", "e", " ",
      "a", "r", "r", "i", "v", "a", "l", " ", "l", "o", "c", "a", "t", "i", "o", "n", ":", " ">>
\* . Please provide a valid airport code (e.g., JFK, LAX) or major city name.
ErrResolveHint ==
    <<".", " ", "P", "l", "e", "a", "s", "e", " ", "p", "r", "o", "v", "i", "d", "e", " ", "a",
      " ", "v", "a", "l", "i", "d", " ", "a", "i", "r", "p", "o", "r", "t", " ", "c", "o", "d",
      "e", " ", "(", "e", ".", "g", ".", ",", " ", "J", "F", "K", ",", " ", "L", "A", "X", ")",
      " ", "o", "r", " ", "m", "a", "j", "o", "r", " ", "c", "i", "t", "y", " ", "n", "a", "m",
      "e", ".">>
\* Invalid departure date format: 
ErrDepartureDateFormat ==
    <<"I", "n", "v", "a", "l", "i", "d", " ", "d", "e", "p", "a", "r", "t", "u", "r", "e", " ",
      "d", "a", "t", "e", " ", "f", "o", "r", "m", "a", "t", ":", " ">>
\* Invalid return date format: 
ErrReturnDateFormat ==
    <<"I", "n", "v", "a", "l", "i", "d", " ", "r", "e", "t", "u", "r", "n", " ", "d", "a", "t",
      "e", " ", "f", "o", "r", "m", "a", "t", ":", " ">>
\* . Please use YYYY-MM-DD format.
ErrDateHint ==
    <<".", " ", "P", "l", "e", "a", "s", "e", " ", "u", "s", "e", " ", "Y", "Y", "Y", "Y", "-",
      "M", "M", "-", "D", "D", " ", "f", "o", "r", "m", "a", "t", ".">>
\* Return date must be after departure date.
ErrReturnNotAfter ==
    <<"R", "e", "t", "u", "r", "n", " ", "d", "a", "t", "e", " ", "m", "u", "s", "t", " ", "b",
      "e", " ", "a", "f", "t", "e", "r", " ", "d", "e", "p", "a", "r", "t", "u", "r", "e", " ",
      "d", "a", "t", "e", ".">>
\* Return date is required for round trip flights.
ErrReturnRequired ==
    <<"R", "e", "t", "u", "r", "n", " ", "d", "a", "t", "e", " ", "i", "s", " ", "r", "e", "q",
      "u", "i", "r", "e", "d", " ", "f", "o", "r", " ", "r", "o", "u", "n", "d", " ", "t", "r",
      "i", "p", " ", "f", "l", "i", "g", "h", "t", "s", ".">>
\* Flight search failed: 
ErrFlightSearchFailed ==
    <<"F", "l", "i", "g", "h", "t", " ", "s", "e", "a", "r", "c", "h", " ", "f", "a", "i", "l",
      "e", "d", ":", " ">>
\* Invalid check-in date format: 
ErrCheckInDateFormat ==
    <<"I", "n", "v", "a", "l", "i", "d", " ", "c", "h", "e", "c", "k", "-", "i", "n", " ", "d",
      "a", "t", "e", " ", "f", "o", "r", "m", "a", "t", ":", " ">>
\* Invalid check-out date format: 
ErrCheckOutDateFormat ==
    <<"I", "n", "v", "a", "l", "i", "d", " ", "c", "h", "e", "c", "k", "-", "o", "u", "t", " ",
      "d", "a", "t", "e", " ", "f", "o", "r", "m", "a", "t", ":", " ">>
\* Check-out date must be after check-in date.
ErrCheckOutNotAfter ==
    <<"C", "h", "e", "c", "k", "-", "o", "u", "t", " ", "d", "a", "t", "e", " ", "m", "u", "s",
      "t", " ", "b", "e", " ", "a", "f", "t", "e", "r", " ", "c", "h", "e", "c", "k", "-", "i",
      "n", " ", "d", "a", "t", "e", ".">>
\* Hotel search failed: 
ErrHotelSearchFailed ==
    <<"H", "o", "t", "e", "l", " ", "s", "e", "a", "r", "c", "h", " ", "f", "a", "i", "l", "e",
      "d", ":", " ">>
\* SerpAPI key is required. Set SERPAPI_API_KEY environment variable.
ErrKeyRequired ==
    <<"S", "e", "r", "p", "A", "P", "I", " ", "k", "e", "y", " ", "i", "s", " ", "r", "e", "q",
      "u", "i", "r", "e", "d", ".", " ", "S", "e", "t", " ", "S", "E", "R", "P", "A", "P", "I",
      "_", "A", "P", "I", "_", "K", "E", "Y", " ", "e", "n", "v", "i", "r", "o", "n", "m", "e",
      "n", "t", " ", "v", "a", "r", "i", "a", "b", "l", "e", ".">>
\* Return date is required for round trip flights
ValReturnRequired ==
    <<"R", "e", "t", "u", "r", "n", " ", "d", "a", "t", "e", " ", "i", "s", " ", "r", "e", "q",
      "u", "i", "r", "e", "d", " ", "f", "o", "r", " ", "r", "o", "u", "n", "d", " ", "t", "r",
      "i", "p", " ", "f", "l", "i", "g", "h", "t", "s">>
\* Return date must be after departure date
ValReturnNotAfter ==
    <<"R", "e", "t", "u", "r", "n", " ", "d", "a", "t", "e", " ", "m", "u", "s", "t", " ", "b",
      "e", " ", "a", "f", "t", "e", "r", " ", "d", "e", "p", "a", "r", "t", "u", "r", "e", " ",
      "d", "a", "t", "e">>
\* Check-out date must be after check-in date
ValCheckOutNotAfter ==
    <<"C", "h", "e", "c", "k", "-", "o", "u", "t", " ", "d", "a", "t", "e", " ", "m", "u", "s",
      "t", " ", "b", "e", " ", "a", "f", "t", "e", "r", " ", "c", "h", "e", "c", "k", "-", "i",
      "n", " ", "d", "a", "t", "e">>
\* adults: Input should be in range
ValAdultsRange ==
    <<"a", "d", "u", "l", "t", "s", ":", " ", "I", "n", "p", "u", "t", " ", "s", "h", "o", "u",
      "l", "d", " ", "b", "e", " ", "i", "n", " ", "r", "a", "n", "g", "e">>
\* 1 validation error: 
ValidationErrorPrefix ==
    <<"1", " ", "v", "a", "l", "i", "d", "a", "t", "i", "o", "n", " ", "e", "r", "r", "o", "r",
      ":", " ">>
\* Connection to provider failed
ErrProviderDown ==
    <<"C", "o", "n", "n", "e", "c", "t", "i", "o", "n", " ", "t", "o", " ", "p", "r", "o", "v",
      "i", "d", "e", "r", " ", "f", "a", "i", "l", "e", "d">>
\* Invalid API key.
ErrProviderRejected ==
    <<"I", "n", "v", "a", "l", "i", "d", " ", "A", "P", "I", " ", "k", "e", "y", ".">>
\* Maximum price must be greater than minimum price
ValMaxPrice ==
    <<"M", "a", "x", "i", "m", "u", "m", " ", "p", "r", "i", "c", "e", " ", "m", "u", "s", "t",
      " ", "b", "e", " ", "g", "r", "e", "a", "t", "e", "r", " ", "t", "h", "a", "n", " ", "m",
      "i", "n", "i", "m", "u", "m", " ", "p", "r", "i", "c", "e">>
\* max_price: Input should be greater than or equal to 0
ValMaxPriceRange ==
    <<"m", "a", "x", "_", "p", "r", "i", "c", "e", ":", " ", "I", "n", "p", "u", "t", " ", "s",
      "h", "o", "u", "l", "d", " ", "b", "e", " ", "g", "r", "e", "a", "t", "e", "r", " ", "t",
      "h", "a", "n", " ", "o", "r", " ", "e", "q", "u", "a", "l", " ", "t", "o", " ", "0">>

\* values of the API key variables (core/config.py, api/health.py, api/chat.py)
(***************************************************************************)
\* sk-provided
Key_provided ==
    <<"s", "k", "-", "p", "r", "o", "v", "i", "d", "e", "d">>
\* 
Key_empty ==
    <<>>
\* your-openai-key-here
PlaceholderOpenAI ==
    <<"y", "o", "u", "r", "-", "o", "p", "e", "n", "a", "i", "-", "k", "e", "y", "-", "h", "e",
      "r", "e">>
\* your-serpapi-key-here
PlaceholderSerpAPI ==
    <<"y", "o", "u", "r", "-", "s", "e", "r", "p", "a", "p", "i", "-", "k", "e", "y", "-", "h",
      "e", "r", "e">>
\* OpenAI API key not configured
DetailOpenAIKey ==
    <<"O", "p", "e", "n", "A", "I", " ", "A", "P", "I", " ", "k", "e", "y", " ", "n", "o", "t",
      " ", "c", "o", "n", "f", "i", "g", "u", "r", "e", "d">>
\* SerpAPI key not configured
DetailSerpAPIKey ==
    <<"S", "e", "r", "p", "A", "P", "I", " ", "k", "e", "y", " ", "n", "o", "t", " ", "c", "o",
      "n", "f", "i", "g", "u", "r", "e", "d">>
\* Failed to search hotels: 
DetailHotelSearchPrefix ==
    <<"F", "a", "i", "l", "e", "d", " ", "t", "o", " ", "s", "e", "a", "r", "c", "h", " ", "h",
      "o", "t", "e", "l", "s", ":", " ">>
\* cannot import name 'HotelService' from 'app.services.hotel_service'
ErrImportHotelService ==
    <<"c", "a", "n", "n", "o", "t", " ", "i", "m", "p", "o", "r", "t", " ", "n", "a", "m", "e",
      " ", "'", "H", "o", "t", "e", "l", "S", "e", "r", "v", "i", "c", "e", "'", " ", "f", "r",
      "o", "m", " ", "'", "a", "p", "p", ".", "s", "e", "r", "v", "i", "c", "e", "s", ".", "h",
      "o", "t", "e", "l", "_", "s", "e", "r", "v", "i", "c", "e", "'">>


\* texts of the parameter-extraction endpoint (api/chat.py, agents/flight_agent.py)
\* from
Kw_from ==
    <<"f", "r", "o", "m">>
\* to
Kw_to ==
    <<"t", "o">>
\* Fly from Paris to Rome 2026-01-30 back 2026-02-09
Msg_trip ==
    <<"F", "l", "y", " ", "f", "r", "o", "m", " ", "P", "a", "r", "i", "s", " ", "t", "o", " ",
      "R", "o", "m", "e", " ", "2", "0", "2", "6", "-", "0", "1", "-", "3", "0", " ", "b", "a",
      "c", "k", " ", "2", "0", "2", "6", "-", "0", "2", "-", "0", "9">>
\* from dhaka to 
Msg_no_arrival ==
    <<"f", "r", "o", "m", " ", "d", "h", "a", "k", "a", " ", "t", "o", " ">>
\* hotels in paris
Msg_hotels ==
    <<"h", "o", "t", "e", "l", "s", " ", "i", "n", " ", "p", "a", "r", "i", "s">>
\* Message is required
DetailMessageRequired ==
    <<"M", "e", "s", "s", "a", "g", "e", " ", "i", "s", " ", "r", "e", "q", "u", "i", "r", "e",
      "d">>
\* Failed to extract parameters: 
DetailExtractPrefix ==
    <<"F", "a", "i", "l", "e", "d", " ", "t", "o", " ", "e", "x", "t", "r", "a", "c", "t", " ",
      "p", "a", "r", "a", "m", "e", "t", "e", "r", "s", ":", " ">>
\* 'TravelAgent' object has no attribute 'extract_flight_params'
ErrNoExtractAttr ==
    <<"'", "T", "r", "a", "v", "e", "l", "A", "g", "e", "n", "t", "'", " ", "o", "b", "j", "e",
      "c", "t", " ", "h", "a", "s", " ", "n", "o", " ", "a", "t", "t", "r", "i", "b", "u", "t",
      "e", " ", "'", "e", "x", "t", "r", "a", "c", "t", "_", "f", "l", "i", "g", "h", "t", "_",
      "p", "a", "r", "a", "m", "s", "'">>
\* list index out of range
ErrListIndex ==
    <<"l", "i", "s", "t", " ", "i", "n", "d", "e", "x", " ", "o", "u", "t", " ", "o", "f", " ",
      "r", "a", "n", "g", "e">>
\* The api_key client option must be set
ErrAgentInit ==
    <<"T", "h", "e", " ", "a", "p", "i", "_", "k", "e", "y", " ", "c", "l", "i", "e", "n", "t",
      " ", "o", "p", "t", "i", "o", "n", " ", "m", "u", "s", "t", " ", "b", "e", " ", "s", "e",
      "t">>

\* texts of the chat endpoints and of the exception handlers (api/chat.py, main.py)
\* Failed to process message: 
DetailProcessPrefix ==
    <<"F", "a", "i", "l", "e", "d", " ", "t", "o", " ", "p", "r", "o", "c", "e", "s", "s", " ",
      "m", "e", "s", "s", "a", "g", "e", ":", " ">>
\* Failed to get conversation state: 
DetailGetStatePrefix ==
    <<"F", "a", "i", "l", "e", "d", " ", "t", "o", " ", "g", "e", "t", " ", "c", "o", "n", "v",
      "e", "r", "s", "a", "t", "i", "o", "n", " ", "s", "t", "a", "t", "e", ":", " ">>
\* Failed to clear conversation: 
DetailClearPrefix ==
    <<"F", "a", "i", "l", "e", "d", " ", "t", "o", " ", "c", "l", "e", "a", "r", " ", "c", "o",
      "n", "v", "e", "r", "s", "a", "t", "i", "o", "n", ":", " ">>
\* Request validation failed
DetailValidationFailed ==
    <<"R", "e", "q", "u", "e", "s", "t", " ", "v", "a", "l", "i", "d", "a", "t", "i", "o", "n",
      " ", "f", "a", "i", "l", "e", "d">>
\* Internal server error
DetailInternal ==
    <<"I", "n", "t", "e", "r", "n", "a", "l", " ", "s", "e", "r", "v", "e", "r", " ", "e", "r",
      "r", "o", "r">>

\* airport_mappings, in the dict's insertion order: city name -> airport codes
airport_mappings ==
    <<
      [city |-> <<"n", "e", "w", " ", "y", "o", "r", "k">>,
       codes |-> <<<<"J", "F", "K">>, <<"L", "G", "A">>, <<"E", "W", "R">>>>],
      [city |-> <<"l", "o", "n", "d", "o", "n">>,
       codes |-> <<<<"L", "H", "R">>, <<"L", "G", "W">>, <<"S", "T", "N">>>>],
      [city |-> <<"p", "a", "r", "i", "s">>,
       codes |-> <<<<"C", "D", "G">>, <<"O", "R", "Y">>>>],
      [city |-> <<"t", "o", "k", "y", "o">>,
       codes |-> <<<<"N", "R", "T">>, <<"H", "N", "D">>>>],
      [city |-> <<"l", "o", "s", " ", "a", "n", "g", "e", "l", "e", "s">>,
       codes |-> <<<<"L", "A", "X">>>>],
      [city |-> <<"c", "h", "i", "c", "a", "g", "o">>,
       codes |-> <<<<"O", "R", "D">>, <<"M", "D", "W">>>>],
      [city |-> <<"m", "i", "a", "m", "i">>,
       codes |-> <<<<"M", "I", "A">>>>],
      [city |-> <<"s", "a", "n", " ", "f", "r", "a", "n", "c", "i", "s", "c", "o">>,
       codes |-> <<<<"S", "F", "O">>>>],
      [city |-> <<"b", "o", "s", "t", "o", "n">>,
       codes |-> <<<<"B", "O", "S">>>>],
      [city |-> <<"w", "a", "s", "h", "i", "n", "g", "t", "o", "n">>,
       codes |-> <<<<"D", "C", "A">>, <<"I", "A", "D">>>>]
    >>

(***************************************************************************)
(* Exceptions.  An operation that may raise returns [raised |-> TRUE,      *)
(* exc |-> str(e)] or [raised |-> FALSE, ...].                             *)
(***************************************************************************)
Raise(text) == [raised |-> TRUE, exc |-> text]

(***************************************************************************)
(* Provider clients (services/serpapi_service.py, hotel_service.py)        *)
(***************************************************************************)
\* SerpAPIService.__init__ / HotelSerpAPIService.__init__ with api_key=None:
\* the key comes from os.getenv and its absence raises ValueError.
NewProviderClient(key_set) ==
    IF key_set
    THEN [raised |-> FALSE, instance |-> [api_key |-> "SERPAPI_API_KEY"]]
    ELSE Raise(ErrKeyRequired)

\* get_serpapi_service() / get_hotel_service(): lazily fill the module global.
\* Returns the (possibly new) value of the global, or the constructor's error.
GetService(global, key_set) ==
    IF IsNone(global)
    THEN LET made == NewProviderClient(key_set) IN
         IF made.raised
         THEN [raised |-> TRUE, exc |-> made.exc, global |-> global]
         ELSE [raised |-> FALSE, global |-> Some(made.instance)]
    ELSE [raised |-> FALSE, global |-> global]

\* SerpAPIService.get_airport_suggestions(query): codes of the suggestions.
RECURSIVE CityMatches(_, _)
CityMatches(query_lower, i) ==
    IF i > Len(airport_mappings) THEN <<>>
    ELSE LET row == airport_mappings[i] IN
         (IF Contains(row.city, query_lower) \/ Contains(query_lower, row.city)
          THEN row.codes ELSE <<>>)
         \o CityMatches(query_lower, i + 1)

get_airport_suggestions(query) ==
    LET matched == CityMatches(StrLower(query), 1)
        all == IF matched = <<>> /\ Len(query) = 3 /\ IsAlpha(query)
               THEN <<StrUpper(query)>>
               ELSE matched
    IN  SubSeq(all, 1, IF Len(all) < 5 THEN Len(all) ELSE 5)

\* Mutant of _resolve_airport_code: the city table is consulted first and the
\* three-letter rule is only the fallback (as get_airport_suggestions does).
_resolve_airport_code_TableFirst(location, global, key_set) ==
    LET svc == GetService(global, key_set) IN
    IF svc.raised THEN svc
    ELSE LET suggestions == get_airport_suggestions(location) IN
         [raised |-> FALSE,
          code |-> IF suggestions # <<>> THEN Some(suggestions[1]) ELSE None,
          global |-> svc.global]

\* Mutant of _resolve_airport_code: the last suggestion is taken, not the first.
_resolve_airport_code_LastSuggestion(location, global, key_set) ==
    IF Len(location) = 3 /\ IsAlpha(location)
    THEN [raised |-> FALSE, code |-> Some(StrUpper(location)), global |-> global]
    ELSE LET svc == GetService(global, key_set) IN
         IF svc.raised THEN svc
         ELSE LET suggestions == get_airport_suggestions(location) IN
              [raised |-> FALSE,
               code |-> IF suggestions # <<>>
                        THEN Some(suggestions[Len(suggestions)]) ELSE None,
               global |-> svc.global]

\* _resolve_airport_code(location): [raised, exc | code, global]
\* code is None when no suggestion is found.
_resolve_airport_code(location, global, key_set) ==
    IF Len(location) = 3 /\ IsAlpha(location)
    THEN [raised |-> FALSE, code |-> Some(StrUpper(location)), global |-> global]
    ELSE LET svc == GetService(global, key_set) IN
         IF svc.raised THEN svc
         ELSE LET suggestions == get_airport_suggestions(location) IN
              [raised |-> FALSE,
               code |-> IF suggestions # <<>> THEN Some(suggestions[1]) ELSE None,
               global |-> svc.global]

(***************************************************************************)
(* FlightSearchRequest (models/flight.py)                                  *)
(***************************************************************************)
\* Declaration order of the fields; pydantic validates in this order and a
\* validator sees in `values` only the fields declared before its own.
FlightRequestFields ==
    <<"departure_id", "arrival_id", "outbound_date", "return_date",
      "adults", "children", "infants_in_seat", "infants_on_lap",
      "trip_type", "travel_class", "sort_by", "stops", "max_price",
      "include_airlines", "exclude_airlines", "max_duration">>

FieldsBefore(fields, name) ==
    {fields[i] : i \in 1..(IndexIn(name, fields) - 1)}

\* the trip_type_map of search_flights and of to_search_request, with the
\* .get(..., TripType.ROUND_TRIP) default
TripTypeOf(token) ==
    CASE token = "one_way" -> "ONE_WAY"
      [] token = "round_trip" -> "ROUND_TRIP"
      [] token = "multi_city" -> "MULTI_CITY"
      [] OTHER -> "ROUND_TRIP"

\* class_map with the .get(..., TravelClass.ECONOMY) default
TravelClassOf(token) ==
    CASE token = "economy" -> "ECONOMY"
      [] token = "premium_economy" -> "PREMIUM_ECONOMY"
      [] token = "business" -> "BUSINESS"
      [] token = "first" -> "FIRST"
      [] OTHER -> "ECONOMY"

AdultsMin == 1
AdultsMax == 9

\* @validator('return_date'): None when v is accepted, else the message.
validate_return_date(v, values) ==
    IF "trip_type" \in DOMAIN values /\ values.trip_type = "ROUND_TRIP"
    THEN IF IsNone(v) THEN Some(ValReturnRequired)
         ELSE IF "outbound_date" \in DOMAIN values
                 /\ DateLE(Val(v), values.outbound_date)
              THEN Some(ValReturnNotAfter)
              ELSE None
    ELSE None

\* FlightSearchRequest(**kw): the request, or the ValidationError raised.
FlightSearchRequest(kw) ==
    LET seen == FieldsBefore(FlightRequestFields, "return_date") \cap DOMAIN kw
        values == [f \in seen |-> kw[f]]
        bad_return == validate_return_date(kw.return_date, values)
        bad_adults == IF kw.adults >= AdultsMin /\ kw.adults <= AdultsMax
                      THEN None ELSE Some(ValAdultsRange)
    IN  IF ~IsNone(bad_return)
        THEN Raise(ValidationErrorPrefix \o Val(bad_return))
        ELSE IF ~IsNone(bad_adults)
        THEN Raise(ValidationErrorPrefix \o Val(bad_adults))
        ELSE [raised |-> FALSE, request |-> kw]

(***************************************************************************)
(* SerpAPIService.search_flights: the provider adapter.  `answer` is what  *)
(* the external search API does with the query.                            *)
(***************************************************************************)
FlightProviderAnswers ==
    { [kind |-> "results", best_flights |-> <<>>],
      [kind |-> "results", best_flights |-> <<120, 95, 300, 80>>],
      [kind |-> "error", text |-> ErrProviderRejected],
      [kind |-> "raise", text |-> ErrProviderDown] }

\* FlightSearchResponse: error is Optional[str]; flights are kept as prices.
ServiceSearchFlights(search_request, answer) ==
    CASE answer.kind = "raise" ->
            [error |-> Some(ErrFlightSearchFailed \o answer.text), best_flights |-> <<>>]
      [] answer.kind = "error" ->
            [error |-> Some(answer.text), best_flights |-> <<>>]
      [] OTHER ->
            [error |-> None, best_flights |-> answer.best_flights]

\* date.strftime("%Y-%m-%d"): zero-padded year, month and day
Strftime(date) ==
    LET digit(n) == Digits[(n % 10) + 1] IN
    <<digit(date.y \div 1000), digit(date.y \div 100), digit(date.y \div 10), digit(date.y),
      "-", digit(date.m \div 10), digit(date.m),
      "-", digit(date.d \div 10), digit(date.d)>>

\* TripType values (models/flight.py lines 11-15)
TripTypeValue(trip_type) ==
    CASE trip_type = "ROUND_TRIP" -> "1"
      [] trip_type = "ONE_WAY" -> "2"
      [] trip_type = "MULTI_CITY" -> "3"

\* SerpAPIService._build_search_params (lines 61-78): the query sent to
\* the provider; return_date is None when the key is left out.
build_search_params(search_request) ==
    [engine |-> "google_flights",
     departure_id |-> search_request.departure_id,
     arrival_id |-> search_request.arrival_id,
     outbound_date |-> Strftime(search_request.outbound_date),
     return_date |-> IF ~IsNone(search_request.return_date)
                     THEN Some(Strftime(Val(search_request.return_date)))
                     ELSE None,
     type |-> TripTypeValue(search_request.trip_type)]

TopThree(s) == SubSeq(s, 1, IF Len(s) < 3 THEN Len(s) ELSE 3)

(***************************************************************************)
(* search_flights (agents/tools.py)                                        *)
(***************************************************************************)
\* A tool's step result: what it returns or raises, the provider queries it
\* issued, and the value it leaves in the service global.
Returned(payload, log, global) ==
    [kind |-> "return", payload |-> payload, log |-> log, global |-> global]
Raised(exc, log, global) ==
    [kind |-> "raise", exc |-> exc, log |-> log, global |-> global]

ErrorPayload(text) == [error |-> text]

\* Mutant of ProviderErrorPayload: the provider's text is replaced by a fixed one.
ProviderErrorPayload_Rewritten(error) == ErrorPayload(ErrProviderDown)

\* lines 127-128 and 317-318: {"error": response.error}
ProviderErrorPayload(error) == ErrorPayload(error)

\* lines 97-178: build the request, query the provider, format the result
SearchFlightsExecute(a, departure_code, arrival_code, outbound_date, return_date_obj, global, key_set, answer) ==
    LET built == FlightSearchRequest(
                     [departure_id |-> departure_code,
                      arrival_id |-> arrival_code,
                      outbound_date |-> outbound_date,
                      return_date |-> return_date_obj,
                      adults |-> a.passengers,
                      trip_type |-> TripTypeOf(a.trip_type),
                      travel_class |-> TravelClassOf(a.travel_class)])
    IN  IF built.raised THEN Raised(built.exc, <<>>, global)
        ELSE LET svc == GetService(global, key_set) IN
             IF svc.raised THEN Raised(svc.exc, <<>>, global)
             ELSE LET resp == ServiceSearchFlights(built.request, answer)
                      log == <<[engine |-> "google_flights",
                                request |-> built.request,
                                answer |-> answer]>>
                  IN  IF ~IsNone(resp.error)
                      THEN Returned(ProviderErrorPayload(Val(resp.error)), log, svc.global)
                      ELSE Returned(
                               [success |-> TRUE,
                                search_params |->
                                    [departure |-> departure_code,
                                     arrival |-> arrival_code,
                                     departure_date |-> a.departure_date,
                                     return_date |-> a.return_date,
                                     passengers |-> a.passengers,
                                     trip_type |-> a.trip_type,
                                     travel_class |-> a.travel_class],
                                best_flights_count |-> Len(resp.best_flights),
                                best_flights |-> TopThree(resp.best_flights)],
                               log, svc.global)

\* Mutant of ReturnNotAfter: "<" where the code has "<=".
ReturnNotAfter_StrictLess(return_date_obj, outbound_date) ==
    DateLT(return_date_obj, outbound_date)

\* line 82: return_date_obj <= outbound_date
ReturnNotAfter(return_date_obj, outbound_date) ==
    DateLE(return_date_obj, outbound_date)

\* Mutant of RoundTripWithoutReturn: the token is misspelt.
RoundTripWithoutReturn_WrongToken(trip_type, return_date_obj) ==
    trip_type = "roundtrip" /\ IsNone(return_date_obj)

\* line 92: trip_type == "round_trip" and not return_date_obj
RoundTripWithoutReturn(trip_type, return_date_obj) ==
    trip_type = "round_trip" /\ IsNone(return_date_obj)

\* lines 70-95: parse and check the dates
SearchFlightsDates(a, departure_code, arrival_code, global, key_set, answer) ==
    LET outbound == ParseDate(a.departure_date) IN
    IF IsNone(outbound)
    THEN Returned(ErrorPayload(ErrDepartureDateFormat \o a.departure_date \o ErrDateHint),
                  <<>>, global)
    ELSE LET supplied == ~IsNone(a.return_date) /\ Val(a.return_date) # <<>>
             parsed == IF supplied THEN ParseDate(Val(a.return_date)) ELSE None
         IN  IF supplied /\ IsNone(parsed)
             THEN Returned(ErrorPayload(ErrReturnDateFormat \o Val(a.return_date)
                                        \o ErrDateHint), <<>>, global)
             ELSE IF supplied /\ ReturnNotAfter(Val(parsed), Val(outbound))
             THEN Returned(ErrorPayload(ErrReturnNotAfter), <<>>, global)
             ELSE IF RoundTripWithoutReturn(a.trip_type, parsed)
             THEN Returned(ErrorPayload(ErrReturnRequired), <<>>, global)
             ELSE SearchFlightsExecute(a, departure_code, arrival_code,
                                       Val(outbound), parsed, global, key_set, answer)

\* lines 60-63: the payload returned when the departure is not resolved
DepartureUnresolved(departure_location) ==
    ErrorPayload(ErrResolveDeparture \o departure_location \o ErrResolveHint)

\* Mutant of ArrivalUnresolved: the message leaves the input out.
ArrivalUnresolved_WithoutInput(arrival_location) ==
    ErrorPayload(ErrResolveArrival \o ErrResolveHint)

\* lines 65-68: the payload returned when the arrival is not resolved
ArrivalUnresolved(arrival_location) ==
    ErrorPayload(ErrResolveArrival \o arrival_location \o ErrResolveHint)

\* Mutant of SearchFlightsBody: the arrival is checked before the departure.
SearchFlightsBody_ArrivalFirst(a, global, key_set, answer) ==
    LET dep == _resolve_airport_code(a.departure_location, global, key_set) IN
    IF dep.raised THEN Raised(dep.exc, <<>>, dep.global)
    ELSE LET arr == _resolve_airport_code(a.arrival_location, dep.global, key_set) IN
         IF arr.raised THEN Raised(arr.exc, <<>>, arr.global)
         ELSE IF IsNone(arr.code)
         THEN Returned(ArrivalUnresolved(a.arrival_location), <<>>, arr.global)
         ELSE IF IsNone(dep.code)
         THEN Returned(DepartureUnresolved(a.departure_location), <<>>, arr.global)
         ELSE SearchFlightsDates(a, Val(dep.code), Val(arr.code), arr.global,
                                 key_set, answer)

\* lines 55-68: the body of the try block, from the location lookups on
SearchFlightsBody(a, global, key_set, answer) ==
    LET dep == _resolve_airport_code(a.departure_location, global, key_set) IN
    IF dep.raised THEN Raised(dep.exc, <<>>, dep.global)
    ELSE LET arr == _resolve_airport_code(a.arrival_location, dep.global, key_set) IN
         IF arr.raised THEN Raised(arr.exc, <<>>, arr.global)
         ELSE IF IsNone(dep.code)
         THEN Returned(DepartureUnresolved(a.departure_location), <<>>, arr.global)
         ELSE IF IsNone(arr.code)
         THEN Returned(ArrivalUnresolved(a.arrival_location), <<>>, arr.global)
         ELSE SearchFlightsDates(a, Val(dep.code), Val(arr.code), arr.global,
                                 key_set, answer)

\* Mutant of FlightToolExcept: the exception is not caught.
FlightToolExcept_Propagate(r) == r

\* lines 180-184: except Exception -> {"error": "Flight search failed: ..."}
FlightToolExcept(r) ==
    IF r.kind = "raise"
    THEN Returned(ErrorPayload(ErrFlightSearchFailed \o r.exc), r.log, r.global)
    ELSE r

search_flights(a, global, key_set, answer) ==
    FlightToolExcept(SearchFlightsBody(a, global, key_set, answer))

(***************************************************************************)
(* HotelSearchRequest (models/hotel.py)                                    *)
(***************************************************************************)
HotelRequestFields ==
    <<"q", "check_in_date", "check_out_date", "adults", "children",
      "currency", "gl", "hl", "sort_by", "min_price", "max_price", "rating",
      "hotel_class", "property_types", "amenities", "brands",
      "vacation_rentals", "bedrooms", "bathrooms", "free_cancellation",
      "special_offers", "eco_certified">>

HotelAdultsMin == 1
HotelAdultsMax == 20
PriceMin == 0

\* sort_map with the .get(..., HotelSortBy.RELEVANCE) default
HotelSortOf(token) ==
    CASE token = "relevance" -> "RELEVANCE"
      [] token = "price" -> "LOWEST_PRICE"
      [] token = "rating" -> "HIGHEST_RATING"
      [] token = "reviews" -> "MOST_REVIEWED"
      [] OTHER -> "RELEVANCE"

\* Mutant of validate_check_out_date: "<" where the code has "<=".
validate_check_out_date_StrictLess(v, data) ==
    IF "check_in_date" \in DOMAIN data /\ DateLT(v, data.check_in_date)
    THEN Some(ValCheckOutNotAfter)
    ELSE None

\* @field_validator('check_out_date'): info.data holds the earlier fields.
validate_check_out_date(v, data) ==
    IF "check_in_date" \in DOMAIN data /\ DateLE(v, data.check_in_date)
    THEN Some(ValCheckOutNotAfter)
    ELSE None

\* @field_validator('max_price'): min_price is compared when it was given.
validate_price_range(v, data) ==
    IF ~IsNone(v) /\ "min_price" \in DOMAIN data /\ ~IsNone(data.min_price)
       /\ Val(v) <= Val(data.min_price)
    THEN Some(ValMaxPrice)
    ELSE None

HotelSearchRequest(kw) ==
    LET seen_out == FieldsBefore(HotelRequestFields, "check_out_date") \cap DOMAIN kw
        bad_out == validate_check_out_date(kw.check_out_date,
                                           [f \in seen_out |-> kw[f]])
        bad_adults == IF kw.adults >= HotelAdultsMin /\ kw.adults <= HotelAdultsMax
                      THEN None ELSE Some(ValAdultsRange)
        seen_max == FieldsBefore(HotelRequestFields, "max_price") \cap DOMAIN kw
        bad_max == IF ~IsNone(kw.max_price) /\ Val(kw.max_price) < PriceMin
                   THEN Some(ValMaxPriceRange)
                   ELSE validate_price_range(kw.max_price,
                                             [f \in seen_max |-> kw[f]])
    IN  IF ~IsNone(bad_out)
        THEN Raise(ValidationErrorPrefix \o Val(bad_out))
        ELSE IF ~IsNone(bad_adults)
        THEN Raise(ValidationErrorPrefix \o Val(bad_adults))
        ELSE IF ~IsNone(bad_max)
        THEN Raise(ValidationErrorPrefix \o Val(bad_max))
        ELSE [raised |-> FALSE, request |-> kw]

(***************************************************************************)
(* HotelSerpAPIService.search_hotels: the provider adapter.  A property is *)
(* kept as its rate_per_night.extracted_lowest (None when absent).         *)
(***************************************************************************)
HotelProviderAnswers ==
    { [kind |-> "results", properties |-> <<>>],
      [kind |-> "results",
       properties |-> <<Some(150), None, Some(90), Some(210), Some(60)>>],
      [kind |-> "results", properties |-> <<None>>],
      [kind |-> "results", properties |-> <<Some(0), Some(120)>>],
      [kind |-> "error", text |-> ErrProviderRejected],
      [kind |-> "raise", text |-> ErrProviderDown] }

ServiceSearchHotels(search_request, answer) ==
    CASE answer.kind = "raise" ->
            [error |-> Some(ErrHotelSearchFailed \o answer.text), properties |-> <<>>]
      [] answer.kind = "error" ->
            [error |-> Some(answer.text), properties |-> <<>>]
      [] OTHER ->
            [error |-> None, properties |-> answer.properties]

\* lines 340-347: prices of the properties that carry a (truthy) lowest rate
PricesOf(properties) ==
    {Val(properties[i]) : i \in {j \in 1..Len(properties) :
                                    ~IsNone(properties[j]) /\ Val(properties[j]) # 0}}

SetMin(S) == CHOOSE x \in S : \A y \in S : x <= y
SetMax(S) == CHOOSE x \in S : \A y \in S : x >= y

PriceRange(properties) ==
    LET prices == PricesOf(properties) IN
    IF prices = {} THEN None
    ELSE Some([lowest |-> SetMin(prices), highest |-> SetMax(prices)])

(***************************************************************************)
(* search_hotels (agents/tools.py)                                         *)
(***************************************************************************)
\* lines 293-372: build the request, query the provider, format the result
SearchHotelsExecute(a, check_in, check_out, global, key_set, answer) ==
    LET built == HotelSearchRequest(
                     [q |-> a.location,
                      check_in_date |-> check_in,
                      check_out_date |-> check_out,
                      adults |-> a.guests,
                      sort_by |-> HotelSortOf(a.sort_by),
                      max_price |-> a.max_price,
                      vacation_rentals |-> a.vacation_rental])
    IN  IF built.raised THEN Raised(built.exc, <<>>, global)
        ELSE LET svc == GetService(global, key_set) IN
             IF svc.raised THEN Raised(svc.exc, <<>>, global)
             ELSE LET resp == ServiceSearchHotels(built.request, answer)
                      log == <<[engine |-> "google_hotels",
                                request |-> built.request,
                                answer |-> answer]>>
                  IN  IF ~IsNone(resp.error)
                      THEN Returned(ProviderErrorPayload(Val(resp.error)), log, svc.global)
                      ELSE Returned(
                               [success |-> TRUE,
                                search_params |->
                                    [location |-> a.location,
                                     check_in_date |-> a.check_in_date,
                                     check_out_date |-> a.check_out_date,
                                     guests |-> a.guests,
                                     sort_by |-> a.sort_by,
                                     vacation_rental |-> a.vacation_rental],
                                properties_count |-> Len(resp.properties),
                                price_range |-> PriceRange(resp.properties),
                                properties |-> TopThree(resp.properties)],
                               log, svc.global)

\* lines 272-291: the body of the try block, from the date parsing on
SearchHotelsBody(a, global, key_set, answer) ==
    LET check_in == ParseDate(a.check_in_date) IN
    IF IsNone(check_in)
    THEN Returned(ErrorPayload(ErrCheckInDateFormat \o a.check_in_date \o ErrDateHint),
                  <<>>, global)
    ELSE LET check_out == ParseDate(a.check_out_date) IN
         IF IsNone(check_out)
         THEN Returned(ErrorPayload(ErrCheckOutDateFormat \o a.check_out_date
                                    \o ErrDateHint), <<>>, global)
         ELSE IF DateLE(Val(check_out), Val(check_in))
         THEN Returned(ErrorPayload(ErrCheckOutNotAfter), <<>>, global)
         ELSE SearchHotelsExecute(a, Val(check_in), Val(check_out), global,
                                  key_set, answer)

\* lines 374-378: except Exception -> {"error": "Hotel search failed: ..."}
HotelToolExcept(r) ==
    IF r.kind = "raise"
    THEN Returned(ErrorPayload(ErrHotelSearchFailed \o r.exc), r.log, r.global)
    ELSE r

search_hotels(a, global, key_set, answer) ==
    HotelToolExcept(SearchHotelsBody(a, global, key_set, answer))

(***************************************************************************)
(* FlightSearchParams / HotelSearchParams .to_search_request               *)
(***************************************************************************)
\* Python truthiness of an Optional[str]
Truthy(o) == ~IsNone(o) /\ Val(o) # <<>>

\* Mutant of FlightParamsToSearchRequest: a return date that does not parse
\* is dropped instead of ending the conversion.
FlightParamsToSearchRequest_DropsBadReturn(p) ==
    IF ~(Truthy(p.departure_location) /\ Truthy(p.arrival_location)
         /\ Truthy(p.departure_date))
    THEN None
    ELSE LET outbound == ParseDate(Val(p.departure_date))
             parsed == IF Truthy(p.return_date) THEN ParseDate(Val(p.return_date)) ELSE None
         IN  IF IsNone(outbound)
             THEN None
             ELSE LET built == FlightSearchRequest(
                                   [departure_id |-> Val(p.departure_location),
                                    arrival_id |-> Val(p.arrival_location),
                                    outbound_date |-> Val(outbound),
                                    return_date |-> parsed,
                                    adults |-> p.passengers,
                                    trip_type |-> TripTypeOf(p.trip_type),
                                    travel_class |-> TravelClassOf(p.travel_class)])
                  IN  IF built.raised THEN None ELSE Some(built.request)

\* FlightSearchParams.to_search_request: Some(request) or None.  The params
\* hold Optional[str] locations and dates.
FlightParamsToSearchRequest(p) ==
    IF ~(Truthy(p.departure_location) /\ Truthy(p.arrival_location)
         /\ Truthy(p.departure_date))
    THEN None
    ELSE LET outbound == ParseDate(Val(p.departure_date))
             supplied == Truthy(p.return_date)
             parsed == IF supplied THEN ParseDate(Val(p.return_date)) ELSE None
         IN  IF IsNone(outbound) \/ (supplied /\ IsNone(parsed))
             THEN None
             ELSE LET built == FlightSearchRequest(
                                   [departure_id |-> Val(p.departure_location),
                                    arrival_id |-> Val(p.arrival_location),
                                    outbound_date |-> Val(outbound),
                                    return_date |-> parsed,
                                    adults |-> p.passengers,
                                    trip_type |-> TripTypeOf(p.trip_type),
                                    travel_class |-> TravelClassOf(p.travel_class)])
                  IN  IF built.raised THEN None ELSE Some(built.request)

HotelParamsToSearchRequest(p) ==
    IF ~(Truthy(p.location) /\ Truthy(p.check_in_date) /\ Truthy(p.check_out_date))
    THEN None
    ELSE LET check_in == ParseDate(Val(p.check_in_date))
             check_out == ParseDate(Val(p.check_out_date))
         IN  IF IsNone(check_in) \/ IsNone(check_out)
             THEN None
             ELSE LET built == HotelSearchRequest(
                                   [q |-> Val(p.location),
                                    check_in_date |-> Val(check_in),
                                    check_out_date |-> Val(check_out),
                                    adults |-> p.guests,
                                    vacation_rentals |-> p.vacation_rental,
                                    max_price |-> p.max_price])
                  IN  IF built.raised THEN None ELSE Some(built.request)
\* jfk
Loc_jfk ==
    <<"j", "f", "k">>
\* LAX
Loc_LAX ==
    <<"L", "A", "X">>
\* par
Loc_par ==
    <<"p", "a", "r">>
\* Paris
Loc_Paris ==
    <<"P", "a", "r", "i", "s">>
\* new york city
Loc_new_york_city ==
    <<"n", "e", "w", " ", "y", "o", "r", "k", " ", "c", "i", "t", "y">>
\* Atlantis
Loc_Atlantis ==
    <<"A", "t", "l", "a", "n", "t", "i", "s">>
\* Gotham City
Loc_Gotham_City ==
    <<"G", "o", "t", "h", "a", "m", " ", "C", "i", "t", "y">>
\* 
Loc_empty ==
    <<>>
\* 2026-01-30
Date_2026_01_30 ==
    <<"2", "0", "2", "6", "-", "0", "1", "-", "3", "0">>
\* 2026-02-01
Date_2026_02_01 ==
    <<"2", "0", "2", "6", "-", "0", "2", "-", "0", "1">>
\* 2026-2-9
Date_2026_2_9 ==
    <<"2", "0", "2", "6", "-", "2", "-", "9">>
\* 2025-12-31
Date_2025_12_31 ==
    <<"2", "0", "2", "5", "-", "1", "2", "-", "3", "1">>
\* 2026-02-30
Date_2026_02_30 ==
    <<"2", "0", "2", "6", "-", "0", "2", "-", "3", "0">>
\* 30/01/2026
Date_slashes ==
    <<"3", "0", "/", "0", "1", "/", "2", "0", "2", "6">>
\* flights paris london
Loc_paris_london ==
    <<"f", "l", "i", "g", "h", "t", "s", " ", "p", "a", "r", "i", "s", " ", "l", "o", "n", "d",
      "o", "n">>

(***************************************************************************)
(* Inputs of the tool adapters                                             *)
(***************************************************************************)
DepartureLocations == {Loc_jfk, Loc_Paris, Loc_Atlantis, Loc_empty}
ArrivalLocations == {Loc_par, Loc_new_york_city, Loc_paris_london, Loc_Gotham_City}
OutboundDates == {Date_2026_01_30, Date_2026_02_01, Date_slashes}
ReturnDates ==
    {None, Some(Loc_empty), Some(Date_2026_01_30), Some(Date_2026_02_01),
     Some(Date_2026_2_9), Some(Date_2025_12_31), Some(Date_2026_02_30)}
PassengerCounts == {0, 1, 10}
TripTypeTokens == {"round_trip", "one_way", "return"}
TravelClassTokens == {"economy"}

FlightCalls ==
    [departure_location : DepartureLocations,
     arrival_location : ArrivalLocations,
     departure_date : OutboundDates,
     return_date : ReturnDates,
     passengers : PassengerCounts,
     trip_type : TripTypeTokens,
     travel_class : TravelClassTokens]

HotelLocations == {Loc_Paris, Loc_empty}
CheckInDates == {Date_2026_01_30, Date_2026_02_01, Date_slashes}
CheckOutDates == {Date_2026_01_30, Date_2026_02_01, Date_2026_2_9,
                  Date_2025_12_31, Date_2026_02_30}
GuestCounts == {0, 2, 21}
MaxPrices == {None, Some(200), Some(-1)}

HotelCalls ==
    [location : HotelLocations,
     check_in_date : CheckInDates,
     check_out_date : CheckOutDates,
     guests : GuestCounts,
     sort_by : {"relevance", "cheapest"},
     max_price : MaxPrices,
     vacation_rental : {FALSE}]

ToolCalls ==
    {[op |-> "search_flights", args |-> a] : a \in FlightCalls}
    \cup {[op |-> "search_hotels", args |-> a] : a \in HotelCalls}

NoOutcome == [kind |-> "none"]

\* what the caller of a tool observes: its return value or its exception
ToolOutcome(op, r) ==
    IF r.kind = "raise"
    THEN [kind |-> "raise", op |-> op, exc |-> r.exc]
    ELSE [kind |-> "return", op |-> op, payload |-> r.payload]

(***************************************************************************)
(* The chat turn is not running in the tool specification.                 *)
(***************************************************************************)
TurnOff ==
    /\ pc = "off"
    /\ request = None
    /\ submitted = None
    /\ messages = <<>>
    /\ reply = None
    /\ scan_pos = 0
    /\ extracted_params = None
    /\ response = None

(***************************************************************************)
(* No HTTP request is served in the tool and turn specifications; the      *)
(* environment holds the keys the provider clients are built from.         *)
(***************************************************************************)
EnvKeys == {"OPENAI_API_KEY", "SERPAPI_API_KEY"}

NoExchange == [path |-> "none"]

ApiOff ==
    /\ process_environ =
           [k \in EnvKeys |->
               IF k = "SERPAPI_API_KEY" /\ ~env_serpapi_key
               THEN None ELSE Some(Key_provided)]
    /\ os_environ = process_environ
    /\ settings = None
    /\ http_exchange = NoExchange
    /\ travel_agent = None

\* no worker thread is inside a service getter and the rate limiter is not
\* called in the tool, turn and API specifications
ThreadsOff ==
    /\ tool_threads = <<>>
    /\ clients_made = <<>>

RateOff ==
    /\ rate_config = [limit |-> 0, window |-> 0]
    /\ clock = 0
    /\ requests = <<>>
    /\ rate_call = [key |-> "none"]

(***************************************************************************)
(* Tool specification: the process after import (both service globals      *)
(* None), one tool call chosen by the agent runtime, and the operations    *)
(* applied to it.                                                          *)
(***************************************************************************)
InitTools ==
    /\ env_serpapi_key \in BOOLEAN
    /\ serpapi_service = None
    /\ hotel_service = None
    /\ call \in ToolCalls
    /\ outcome = NoOutcome
    /\ provider_log = <<>>
    /\ TurnOff
    /\ ApiOff
    /\ ThreadsOff
    /\ RateOff

\* the runtime invokes the search_flights tool
SearchFlights ==
    /\ call.op = "search_flights"
    /\ outcome = NoOutcome
    /\ \E answer \in FlightProviderAnswers :
          LET r == search_flights(call.args, serpapi_service, env_serpapi_key, answer) IN
          /\ outcome' = ToolOutcome("search_flights", r)
          /\ provider_log' = r.log
          /\ serpapi_service' = r.global
    /\ UNCHANGED <<env_serpapi_key, hotel_service, call>>
    /\ UNCHANGED turnVars
    /\ UNCHANGED <<apiVars, threadVars, rateVars>>

\* the runtime invokes the search_hotels tool
SearchHotels ==
    /\ call.op = "search_hotels"
    /\ outcome = NoOutcome
    /\ \E answer \in HotelProviderAnswers :
          LET r == search_hotels(call.args, hotel_service, env_serpapi_key, answer) IN
          /\ outcome' = ToolOutcome("search_hotels", r)
          /\ provider_log' = r.log
          /\ hotel_service' = r.global
    /\ UNCHANGED <<env_serpapi_key, serpapi_service, call>>
    /\ UNCHANGED turnVars
    /\ UNCHANGED <<apiVars, threadVars, rateVars>>

\* _resolve_airport_code applied to one of the call's locations
ResolveAirportCode ==
    /\ call.op = "search_flights"
    /\ outcome = NoOutcome
    /\ \E location \in {call.args.departure_location, call.args.arrival_location} :
          LET r == _resolve_airport_code(location, serpapi_service, env_serpapi_key) IN
          /\ outcome' = IF r.raised
                         THEN [kind |-> "raise", op |-> "_resolve_airport_code",
                               location |-> location, exc |-> r.exc]
                         ELSE [kind |-> "return", op |-> "_resolve_airport_code",
                               location |-> location, value |-> r.code]
          /\ serpapi_service' = r.global
    /\ UNCHANGED <<env_serpapi_key, hotel_service, call, provider_log>>
    /\ UNCHANGED turnVars
    /\ UNCHANGED <<apiVars, threadVars, rateVars>>

\* the value of an Optional[str] field of the params: the argument, or None
\* when the field was not extracted
FieldOrOmitted(field, omitted, value) ==
    IF field = omitted THEN None ELSE Some(value)

\* FlightSearchParams(**args).to_search_request(), with at most one of the
\* required fields not extracted
FlightToSearchRequest ==
    /\ call.op = "search_flights"
    /\ outcome = NoOutcome
    /\ \E omitted \in {"none", "departure_location", "arrival_location", "departure_date"} :
         LET a == call.args
             p == [departure_location |->
                       FieldOrOmitted("departure_location", omitted, a.departure_location),
                   arrival_location |->
                       FieldOrOmitted("arrival_location", omitted, a.arrival_location),
                   departure_date |->
                       FieldOrOmitted("departure_date", omitted, a.departure_date),
                   return_date |-> a.return_date,
                   passengers |-> a.passengers,
                   trip_type |-> a.trip_type,
                   travel_class |-> a.travel_class]
         IN  outcome' = [kind |-> "return", op |-> "to_search_request",
                         params |-> p,
                         value |-> FlightParamsToSearchRequest(p)]
    /\ UNCHANGED <<env_serpapi_key, serpapi_service, hotel_service, call, provider_log>>
    /\ UNCHANGED turnVars
    /\ UNCHANGED <<apiVars, threadVars, rateVars>>

\* HotelSearchParams(**args).to_search_request(), likewise
HotelToSearchRequest ==
    /\ call.op = "search_hotels"
    /\ outcome = NoOutcome
    /\ \E omitted \in {"none", "location", "check_in_date", "check_out_date"} :
         LET a == call.args
             p == [location |-> FieldOrOmitted("location", omitted, a.location),
                   check_in_date |->
                       FieldOrOmitted("check_in_date", omitted, a.check_in_date),
                   check_out_date |->
                       FieldOrOmitted("check_out_date", omitted, a.check_out_date),
                   guests |-> a.guests,
                   max_price |-> a.max_price,
                   vacation_rental |-> a.vacation_rental]
         IN  outcome' = [kind |-> "return", op |-> "to_search_request",
                         params |-> p,
                         value |-> HotelParamsToSearchRequest(p)]
    /\ UNCHANGED <<env_serpapi_key, serpapi_service, hotel_service, call, provider_log>>
    /\ UNCHANGED turnVars
    /\ UNCHANGED <<apiVars, threadVars, rateVars>>

\* FlightSearchRequest(...) constructed directly from typed values
NewFlightSearchRequest ==
    /\ call.op = "search_flights"
    /\ outcome = NoOutcome
    /\ LET a == call.args
           outbound == ParseDate(a.departure_date)
           parsed == IF Truthy(a.return_date) THEN ParseDate(Val(a.return_date)) ELSE None
       IN  /\ ~IsNone(outbound)
           /\ Truthy(a.return_date) => ~IsNone(parsed)
           /\ LET built == FlightSearchRequest(
                               [departure_id |-> a.departure_location,
                                arrival_id |-> a.arrival_location,
                                outbound_date |-> Val(outbound),
                                return_date |-> parsed,
                                adults |-> a.passengers,
                                trip_type |-> TripTypeOf(a.trip_type),
                                travel_class |-> TravelClassOf(a.travel_class)])
              IN  outcome' = IF built.raised
                             THEN [kind |-> "raise", op |-> "FlightSearchRequest",
                                   exc |-> built.exc]
                             ELSE [kind |-> "return", op |-> "FlightSearchRequest",
                                   value |-> built.request]
    /\ UNCHANGED <<env_serpapi_key, serpapi_service, hotel_service, call, provider_log>>
    /\ UNCHANGED turnVars
    /\ UNCHANGED <<apiVars, threadVars, rateVars>>

\* HotelSearchRequest(...) constructed directly from typed values
NewHotelSearchRequest ==
    /\ call.op = "search_hotels"
    /\ outcome = NoOutcome
    /\ LET a == call.args
           check_in == ParseDate(a.check_in_date)
           check_out == ParseDate(a.check_out_date)
       IN  /\ ~IsNone(check_in)
           /\ ~IsNone(check_out)
           /\ LET built == HotelSearchRequest(
                               [q |-> a.location,
                                check_in_date |-> Val(check_in),
                                check_out_date |-> Val(check_out),
                                adults |-> a.guests,
                                sort_by |-> HotelSortOf(a.sort_by),
                                max_price |-> a.max_price,
                                vacation_rentals |-> a.vacation_rental])
              IN  outcome' = IF built.raised
                             THEN [kind |-> "raise", op |-> "HotelSearchRequest",
                                   exc |-> built.exc]
                             ELSE [kind |-> "return", op |-> "HotelSearchRequest",
                                   value |-> built.request]
    /\ UNCHANGED <<env_serpapi_key, serpapi_service, hotel_service, call, provider_log>>
    /\ UNCHANGED turnVars
    /\ UNCHANGED <<apiVars, threadVars, rateVars>>

\* the operation has returned; the runtime may issue the call again
NextCall ==
    /\ outcome # NoOutcome
    /\ outcome' = NoOutcome
    /\ provider_log' = <<>>
    /\ UNCHANGED <<env_serpapi_key, serpapi_service, hotel_service, call>>
    /\ UNCHANGED turnVars
    /\ UNCHANGED <<apiVars, threadVars, rateVars>>

NextTools ==
    \/ SearchFlights
    \/ SearchHotels
    \/ ResolveAirportCode
    \/ FlightToSearchRequest
    \/ HotelToSearchRequest
    \/ NewFlightSearchRequest
    \/ NewHotelSearchRequest
    \/ NextCall

SpecTools == InitTools /\ [][NextTools]_vars
\* I apologize, but I encountered an error while processing your request: 
ApologyPrefix ==
    <<"I", " ", "a", "p", "o", "l", "o", "g", "i", "z", "e", ",", " ", "b", "u", "t", " ", "I",
      " ", "e", "n", "c", "o", "u", "n", "t", "e", "r", "e", "d", " ", "a", "n", " ", "e", "r",
      "r", "o", "r", " ", "w", "h", "i", "l", "e", " ", "p", "r", "o", "c", "e", "s", "s", "i",
      "n", "g", " ", "y", "o", "u", "r", " ", "r", "e", "q", "u", "e", "s", "t", ":", " ">>
\* . Please try again or rephrase your question.
ApologySuffix ==
    <<".", " ", "P", "l", "e", "a", "s", "e", " ", "t", "r", "y", " ", "a", "g", "a", "i", "n",
      " ", "o", "r", " ", "r", "e", "p", "h", "r", "a", "s", "e", " ", "y", "o", "u", "r", " ",
      "q", "u", "e", "s", "t", "i", "o", "n", ".">>
\* No response from agent
ErrNoResponse ==
    <<"N", "o", " ", "r", "e", "s", "p", "o", "n", "s", "e", " ", "f", "r", "o", "m", " ", "a",
      "g", "e", "n", "t">>
\* No AI response found
ErrNoAIResponse ==
    <<"N", "o", " ", "A", "I", " ", "r", "e", "s", "p", "o", "n", "s", "e", " ", "f", "o", "u",
      "n", "d">>
\* Connection error.
ErrRuntime ==
    <<"C", "o", "n", "n", "e", "c", "t", "i", "o", "n", " ", "e", "r", "r", "o", "r", ".">>
\* 'NoneType' object has no attribute 'get'
ErrArgsNotDict ==
    <<"'", "N", "o", "n", "e", "T", "y", "p", "e", "'", " ", "o", "b", "j", "e", "c", "t", " ",
      "h", "a", "s", " ", "n", "o", " ", "a", "t", "t", "r", "i", "b", "u", "t", "e", " ", "'",
      "g", "e", "t", "'">>
\* 'list' object has no attribute 'lower'
ErrContentNotStr ==
    <<"'", "l", "i", "s", "t", "'", " ", "o", "b", "j", "e", "c", "t", " ", "h", "a", "s", " ",
      "n", "o", " ", "a", "t", "t", "r", "i", "b", "u", "t", "e", " ", "'", "l", "o", "w", "e",
      "r", "'">>
\* 1 validation error: Input should be a valid 
ErrParamsInvalid ==
    <<"1", " ", "v", "a", "l", "i", "d", "a", "t", "i", "o", "n", " ", "e", "r", "r", "o", "r",
      ":", " ", "I", "n", "p", "u", "t", " ", "s", "h", "o", "u", "l", "d", " ", "b", "e", " ",
      "a", " ", "v", "a", "l", "i", "d", " ">>
\* What is your departure city?
Reply_ask_departure ==
    <<"W", "h", "a", "t", " ", "i", "s", " ", "y", "o", "u", "r", " ", "d", "e", "p", "a", "r",
      "t", "u", "r", "e", " ", "c", "i", "t", "y", "?">>
\* Your departure is booked.
Reply_confirmed ==
    <<"Y", "o", "u", "r", " ", "d", "e", "p", "a", "r", "t", "u", "r", "e", " ", "i", "s", " ",
      "b", "o", "o", "k", "e", "d", ".">>
\* Please specify the DEPARTURE day
Reply_specify_upper ==
    <<"P", "l", "e", "a", "s", "e", " ", "s", "p", "e", "c", "i", "f", "y", " ", "t", "h", "e",
      " ", "D", "E", "P", "A", "R", "T", "U", "R", "E", " ", "d", "a", "y">>
\* I found 3 hotels in Paris.
Reply_results ==
    <<"I", " ", "f", "o", "u", "n", "d", " ", "3", " ", "h", "o", "t", "e", "l", "s", " ", "i",
      "n", " ", "P", "a", "r", "i", "s", ".">>
\* 
Reply_empty ==
    <<>>
\* find me a trip
Text_user ==
    <<"f", "i", "n", "d", " ", "m", "e", " ", "a", " ", "t", "r", "i", "p">>
\* {}
Text_tool_output ==
    <<"{", "}">>
\* 4,5
Hotel_class_4_5 ==
    <<"4", ",", "5">>

(***************************************************************************)
(* One chat turn: TravelAgent.process_message (agents/travel_agent.py)     *)
(***************************************************************************)
\* Values found in a tool call's recorded arguments (JSON values).
VStr(s) == [t |-> "str", v |-> s]
VInt(n) == [t |-> "int", n |-> n]
VBool(b) == [t |-> "bool", b |-> b]
VNull == [t |-> "null"]

\* dict.get(key, default); a dict is a record over the keys it holds
DictGet(d, key, default) == IF key \in DOMAIN d THEN d[key] ELSE default

\* pydantic field validation of the params models: Optional[str], str, int,
\* Optional[int], bool.  [ok |-> FALSE] is a ValidationError.
Bad == [ok |-> FALSE]
Good(v) == [ok |-> TRUE, v |-> v]
AsOptStr(x) ==
    CASE x.t = "null" -> Good(None)
      [] x.t = "str" -> Good(Some(x.v))
      [] OTHER -> Bad
AsStr(x) == IF x.t = "str" THEN Good(x.v) ELSE Bad
AsInt(x) == IF x.t = "int" THEN Good(x.n) ELSE Bad
AsOptInt(x) ==
    CASE x.t = "null" -> Good(None)
      [] x.t = "int" -> Good(Some(x.n))
      [] OTHER -> Bad
AsBool(x) == IF x.t = "bool" THEN Good(x.b) ELSE Bad

\* lines 178-187: FlightSearchParams(...) from a search_flights call's args
FlightParamsFromArgs(args) ==
    LET f == [departure_location |-> AsOptStr(DictGet(args, "departure_location", VNull)),
              arrival_location |-> AsOptStr(DictGet(args, "arrival_location", VNull)),
              departure_date |-> AsOptStr(DictGet(args, "departure_date", VNull)),
              return_date |-> AsOptStr(DictGet(args, "return_date", VNull)),
              passengers |-> AsInt(DictGet(args, "passengers", VInt(1))),
              trip_type |-> AsStr(DictGet(args, "trip_type", VStr("round_trip"))),
              travel_class |-> AsStr(DictGet(args, "travel_class", VStr("economy")))]
    IN  IF \E k \in DOMAIN f : ~f[k].ok
        THEN Raise(ErrParamsInvalid)
        ELSE [raised |-> FALSE, params |-> [k \in DOMAIN f |-> f[k].v]]

\* lines 214-224: HotelSearchParams(...) from a search_hotels call's args
HotelParamsFromArgs(args) ==
    LET f == [location |-> AsOptStr(DictGet(args, "location", VNull)),
              check_in_date |-> AsOptStr(DictGet(args, "check_in_date", VNull)),
              check_out_date |-> AsOptStr(DictGet(args, "check_out_date", VNull)),
              guests |-> AsInt(DictGet(args, "guests", VInt(2))),
              rooms |-> AsInt(DictGet(args, "rooms", VInt(1))),
              hotel_class |-> AsOptStr(DictGet(args, "hotel_class", VNull)),
              max_price |-> AsOptInt(DictGet(args, "max_price", VNull)),
              vacation_rental |-> AsBool(DictGet(args, "vacation_rental", VBool(FALSE)))]
    IN  IF \E k \in DOMAIN f : ~f[k].ok
        THEN Raise(ErrParamsInvalid)
        ELSE [raised |-> FALSE, params |-> [k \in DOMAIN f |-> f[k].v]]

\* TravelSearchParams() with every field at its declared default
TravelSearchParamsDefaults ==
    [search_type |-> "both",
     departure_location |-> None, arrival_location |-> None,
     departure_date |-> None, return_date |-> None,
     passengers |-> 1, trip_type |-> "round_trip", travel_class |-> "economy",
     hotel_location |-> None, check_in_date |-> None, check_out_date |-> None,
     guests |-> 2, rooms |-> 1, hotel_class |-> None, amenities |-> None,
     max_price |-> None, vacation_rental |-> FALSE]

\* Mutant of WithFlightFields: an absent return date keeps the earlier value.
WithFlightFields_KeepReturnDate(tsp, fp) ==
    [tsp EXCEPT !.departure_location = fp.departure_location,
                !.arrival_location = fp.arrival_location,
                !.departure_date = fp.departure_date,
                !.return_date = IF IsNone(fp.return_date) THEN @ ELSE fp.return_date,
                !.passengers = fp.passengers,
                !.trip_type = fp.trip_type,
                !.travel_class = fp.travel_class]

\* the flight fields written at lines 193-199 and 204-210
WithFlightFields(tsp, fp) ==
    [tsp EXCEPT !.departure_location = fp.departure_location,
                !.arrival_location = fp.arrival_location,
                !.departure_date = fp.departure_date,
                !.return_date = fp.return_date,
                !.passengers = fp.passengers,
                !.trip_type = fp.trip_type,
                !.travel_class = fp.travel_class]

\* the hotel fields written at lines 230-237 and 242-249
WithHotelFields(tsp, hp) ==
    [tsp EXCEPT !.hotel_location = hp.location,
                !.check_in_date = hp.check_in_date,
                !.check_out_date = hp.check_out_date,
                !.guests = hp.guests,
                !.rooms = hp.rooms,
                !.hotel_class = hp.hotel_class,
                !.max_price = hp.max_price,
                !.vacation_rental = hp.vacation_rental]

\* line 203: the search type after a search_flights call on existing params
FlightSearchType(current) == IF current = "hotel" THEN "both" ELSE "flight"

\* line 241: the search type after a search_hotels call on existing params
HotelSearchType(current) == IF current = "flight" THEN "both" ELSE "hotel"

\* lines 189-210: create or update the accumulator from a flight call
MergeFlight(acc, fp) ==
    IF IsNone(acc)
    THEN Some(WithFlightFields(
                  [TravelSearchParamsDefaults EXCEPT !.search_type = "flight"], fp))
    ELSE Some(WithFlightFields(
                  [Val(acc) EXCEPT !.search_type = FlightSearchType(@)], fp))

\* lines 226-249: create or update the accumulator from a hotel call
MergeHotel(acc, hp) ==
    IF IsNone(acc)
    THEN Some(WithHotelFields(
                  [TravelSearchParamsDefaults EXCEPT !.search_type = "hotel"], hp))
    ELSE Some(WithHotelFields(
                  [Val(acc) EXCEPT !.search_type = HotelSearchType(@)], hp))

\* lines 176-249: one tool call of the scan.  A call's args are
\* [dict |-> TRUE, items |-> record] or, when not a mapping, [dict |-> FALSE].
ScanToolCall(acc, tool_call) ==
    IF tool_call.name \notin {"search_flights", "search_hotels"}
    THEN [raised |-> FALSE, acc |-> acc]
    ELSE IF ~tool_call.args.dict
    THEN Raise(ErrArgsNotDict)
    ELSE IF tool_call.name = "search_flights"
    THEN LET fp == FlightParamsFromArgs(tool_call.args.items) IN
         IF fp.raised THEN fp
         ELSE [raised |-> FALSE, acc |-> MergeFlight(acc, fp.params)]
    ELSE LET hp == HotelParamsFromArgs(tool_call.args.items) IN
         IF hp.raised THEN hp
         ELSE [raised |-> FALSE, acc |-> MergeHotel(acc, hp.params)]

\* lines 173-175: the tool calls of the messages, in scan order
RECURSIVE AllToolCalls(_)
AllToolCalls(msgs) ==
    IF msgs = <<>> THEN <<>>
    ELSE Head(msgs).tool_calls \o AllToolCalls(Tail(msgs))

\* Mutant of LastAIIndex: the first AIMessage is taken.
LastAIIndex_First(msgs) ==
    LET ai == {i \in 1..Len(msgs) : msgs[i].type = "ai"} IN
    IF ai = {} THEN 0 ELSE CHOOSE i \in ai : \A j \in ai : i <= j

\* lines 154-158: index of the last AIMessage, 0 when there is none
LastAIIndex(msgs) ==
    LET ai == {i \in 1..Len(msgs) : msgs[i].type = "ai"} IN
    IF ai = {} THEN 0 ELSE CHOOSE i \in ai : \A j \in ai : j <= i

\* lines 252-259
clarification_indicators ==
    <<<<"w", "h", "a", "t">>,
      <<"w", "h", "e", "n">>,
      <<"w", "h", "e", "r", "e">>,
      <<"w", "h", "i", "c", "h">>,
      <<"h", "o", "w", " ", "m", "a", "n", "y">>,
      <<"n", "e", "e", "d", " ", "t", "o", " ", "k", "n", "o", "w">>,
      <<"p", "l", "e", "a", "s", "e", " ", "p", "r", "o", "v", "i", "d", "e">>,
      <<"c", "a", "n", " ", "y", "o", "u", " ", "t", "e", "l", "l", " ", "m", "e">>,
      <<"m", "i", "s", "s", "i", "n", "g">>,
      <<"r", "e", "q", "u", "i", "r", "e">>,
      <<"s", "p", "e", "c", "i", "f", "y">>>>

\* Mutant of NeedsClarification: only the first four indicators are tried.
NeedsClarification_QuestionWords(response_lower) ==
    \E i \in 1..4 : Contains(response_lower, clarification_indicators[i])

\* lines 258-260: any(indicator in response_lower for indicator in ...)
NeedsClarification(response_lower) ==
    \E i \in 1..Len(clarification_indicators) :
        Contains(response_lower, clarification_indicators[i])

\* Mutant of DepartureMentioned: only "from" is looked for.
DepartureMentioned_FromOnly(response_lower) ==
    Contains(response_lower, <<"f", "r", "o", "m">>)

\* line 263: "departure" in response_lower or "from" in response_lower
DepartureMentioned(response_lower) ==
    \/ Contains(response_lower, <<"d", "e", "p", "a", "r", "t", "u", "r", "e">>)
    \/ Contains(response_lower, <<"f", "r", "o", "m">>)

\* lines 263-276: the keyword scan, in the order the tokens are appended
MissingParamsScan(response_lower) ==
    (IF DepartureMentioned(response_lower)
     THEN <<"departure_location">> ELSE <<>>)
    \o (IF Contains(response_lower, <<"a", "r", "r", "i", "v", "a", "l">>)
           \/ Contains(response_lower, <<"d", "e", "s", "t", "i", "n", "a", "t", "i", "o", "n">>)
           \/ Contains(response_lower, <<"t", "o">>)
        THEN <<"arrival_location">> ELSE <<>>)
    \o (IF Contains(response_lower, <<"c", "h", "e", "c", "k", "-", "i", "n">>)
           \/ Contains(response_lower, <<"c", "h", "e", "c", "k", " ", "i", "n">>)
        THEN <<"check_in_date">> ELSE <<>>)
    \o (IF Contains(response_lower, <<"c", "h", "e", "c", "k", "-", "o", "u", "t">>)
           \/ Contains(response_lower, <<"c", "h", "e", "c", "k", " ", "o", "u", "t">>)
        THEN <<"check_out_date">> ELSE <<>>)
    \o (IF Contains(response_lower, <<"d", "a", "t", "e">>)
           \/ Contains(response_lower, <<"w", "h", "e", "n">>)
        THEN <<"dates">> ELSE <<>>)
    \o (IF Contains(response_lower, <<"p", "a", "s", "s", "e", "n", "g", "e", "r">>)
           \/ Contains(response_lower, <<"t", "r", "a", "v", "e", "l", "e", "r">>)
           \/ Contains(response_lower, <<"g", "u", "e", "s", "t">>)
        THEN <<"passengers_or_guests">> ELSE <<>>)
    \o (IF Contains(response_lower, <<"l", "o", "c", "a", "t", "i", "o", "n">>)
           \/ Contains(response_lower, <<"w", "h", "e", "r", "e">>)
        THEN <<"location">> ELSE <<>>)

\* lines 258-276: missing_params of a reply
MissingParams(response_content) ==
    LET response_lower == StrLower(response_content) IN
    IF NeedsClarification(response_lower)
    THEN MissingParamsScan(response_lower)
    ELSE <<>>

\* Thread ids: one the client sent, or f"thread_{datetime.now().timestamp()}"
GivenThread(id) == [id |-> id, at |-> 0]
GeneratedThread(now) == [id |-> "thread_", at |-> now]

\* request.thread_id or f"thread_{...}" (lines 136 and 297)
ThreadOr(thread_id, now) ==
    IF ~IsNone(thread_id) /\ Val(thread_id) # ""
    THEN GivenThread(Val(thread_id))
    ELSE GeneratedThread(now)

\* lines 283-291
NormalResponse(content, thread, acc, needs, missing) ==
    [message |-> content,
     thread_id |-> thread,
     flight_results |-> None,
     hotel_results |-> None,
     extracted_params |-> acc,
     needs_clarification |-> needs,
     missing_params |-> missing]

\* Mutant of DegradedResponse: the thread id is always generated afresh.
DegradedResponse_FreshThread(exc, thread_id, now) ==
    [message |-> ApologyPrefix \o exc \o ApologySuffix,
     thread_id |-> GeneratedThread(now),
     flight_results |-> None,
     hotel_results |-> None,
     extracted_params |-> None,
     needs_clarification |-> TRUE,
     missing_params |-> <<>>]

\* lines 293-299: the except branch
DegradedResponse(exc, thread_id, now) ==
    [message |-> ApologyPrefix \o exc \o ApologySuffix,
     thread_id |-> ThreadOr(thread_id, now),
     flight_results |-> None,
     hotel_results |-> None,
     extracted_params |-> None,
     needs_clarification |-> TRUE,
     missing_params |-> <<>>]

(***************************************************************************)
(* Inputs of a chat turn                                                   *)
(***************************************************************************)
Args(items) == [dict |-> TRUE, items |-> items]
ArgsNotDict == [dict |-> FALSE]

\* every argument given
FlightCallFull ==
    [name |-> "search_flights",
     args |-> Args([departure_location |-> VStr(Loc_jfk),
                    arrival_location |-> VStr(Loc_LAX),
                    departure_date |-> VStr(Date_2026_01_30),
                    return_date |-> VStr(Date_2026_02_01),
                    passengers |-> VInt(2),
                    trip_type |-> VStr("one_way"),
                    travel_class |-> VStr("business")])]

\* only the required arguments
FlightCallRequired ==
    [name |-> "search_flights",
     args |-> Args([departure_location |-> VStr(Loc_Paris),
                    arrival_location |-> VStr(Loc_par),
                    departure_date |-> VStr(Date_2026_02_01)])]

\* passengers is not an integer
FlightCallMalformed ==
    [name |-> "search_flights",
     args |-> Args([departure_location |-> VStr(Loc_jfk),
                    arrival_location |-> VStr(Loc_LAX),
                    departure_date |-> VStr(Date_2026_01_30),
                    passengers |-> VStr(Loc_par)])]

HotelCallFull ==
    [name |-> "search_hotels",
     args |-> Args([location |-> VStr(Loc_Paris),
                    check_in_date |-> VStr(Date_2026_01_30),
                    check_out_date |-> VStr(Date_2026_02_01),
                    guests |-> VInt(3),
                    rooms |-> VInt(2),
                    hotel_class |-> VStr(Hotel_class_4_5),
                    max_price |-> VInt(200),
                    vacation_rental |-> VBool(TRUE)])]

HotelCallRequired ==
    [name |-> "search_hotels",
     args |-> Args([location |-> VStr(Loc_new_york_city),
                    check_in_date |-> VStr(Date_2026_02_01),
                    check_out_date |-> VStr(Date_2026_2_9)])]

\* the recorded args are not a mapping
HotelCallNoArgs == [name |-> "search_hotels", args |-> ArgsNotDict]

SuggestionCall ==
    [name |-> "get_airport_suggestions",
     args |-> Args([location_query |-> VStr(Loc_Paris)])]

\* message content: a str, or a list of content blocks
StrContent(text) == [is_str |-> TRUE, text |-> text]
ListContent == [is_str |-> FALSE, text |-> <<>>]

HumanMessage(text) == [type |-> "human", content |-> StrContent(text), tool_calls |-> <<>>]
ToolMessage(text) == [type |-> "tool", content |-> StrContent(text), tool_calls |-> <<>>]
AIMessage(content, tool_calls) ==
    [type |-> "ai", content |-> content, tool_calls |-> tool_calls]

MessageSet ==
    { HumanMessage(Text_user),
      ToolMessage(Text_tool_output),
      AIMessage(StrContent(Reply_empty), <<FlightCallFull>>),
      AIMessage(StrContent(Reply_empty), <<FlightCallRequired>>),
      AIMessage(StrContent(Reply_empty), <<FlightCallMalformed>>),
      AIMessage(StrContent(Reply_empty), <<HotelCallFull>>),
      AIMessage(StrContent(Reply_empty), <<HotelCallRequired>>),
      AIMessage(StrContent(Reply_empty), <<HotelCallNoArgs>>),
      AIMessage(StrContent(Reply_empty), <<SuggestionCall>>),
      AIMessage(StrContent(Reply_empty), <<HotelCallFull, FlightCallFull>>),
      AIMessage(StrContent(Reply_ask_departure), <<>>),
      AIMessage(StrContent(Reply_confirmed), <<>>),
      AIMessage(StrContent(Reply_specify_upper), <<>>),
      AIMessage(StrContent(Reply_results), <<>>),
      AIMessage(ListContent, <<>>) }

\* longest message list the agent runtime returns
MaxMessages == 2

\* distinct readings of datetime.now()
MaxClock == 2

RECURSIVE SeqsUpTo(_, _)
SeqsUpTo(S, n) ==
    IF n = 0 THEN {<<>>}
    ELSE LET shorter == SeqsUpTo(S, n - 1) IN
         shorter \cup {Append(s, x) : s \in shorter, x \in S}

\* what self.agent.invoke does: raise, or return a state with messages
RuntimeAnswers ==
    {[raised |-> TRUE, exc |-> ErrRuntime]}
    \cup {[raised |-> FALSE, messages |-> m] : m \in SeqsUpTo(MessageSet, MaxMessages)}

ChatRequests ==
    [message : {Text_user}, thread_id : {None, Some(""), Some("t1")}]

ToolsOff ==
    /\ env_serpapi_key = TRUE
    /\ serpapi_service = None
    /\ hotel_service = None
    /\ call = [op |-> "none"]
    /\ outcome = NoOutcome
    /\ provider_log = <<>>

(***************************************************************************)
(* Turn specification                                                      *)
(***************************************************************************)
InitTurn ==
    /\ ToolsOff
    /\ ApiOff
    /\ ThreadsOff
    /\ RateOff
    /\ pc = "start"
    /\ request \in ChatRequests
    /\ submitted = None
    /\ messages = <<>>
    /\ reply = None
    /\ scan_pos = 0
    /\ extracted_params = None
    /\ response = None

\* Mutant of Degrade: the exception leaves process_message.
Degrade_Reraise(exc, earlier) ==
    /\ pc' = "raised"
    /\ response' = None
    /\ extracted_params' = None

\* lines 293-299: the except branch, taken from any step of the turn; the
\* clock is read again, not before the `earlier` reading
Degrade(exc, earlier) ==
    \E now \in earlier..MaxClock :
        /\ pc' = "degraded"
        /\ response' = Some(DegradedResponse(exc, request.thread_id, now))
        /\ extracted_params' = None

\* lines 134-163: thread id, agent.invoke, last AI message
ProcessStart ==
    /\ pc = "start"
    /\ \E now \in 1..MaxClock, answer \in RuntimeAnswers :
          LET thread_id == ThreadOr(request.thread_id, now) IN
          /\ submitted' = Some(thread_id)
          /\ IF answer.raised
             THEN /\ Degrade(answer.exc, now)
                  /\ UNCHANGED <<messages, reply, scan_pos>>
             ELSE /\ messages' = answer.messages
                  /\ IF answer.messages = <<>>
                     THEN /\ Degrade(ErrNoResponse, now)
                          /\ UNCHANGED <<reply, scan_pos>>
                     ELSE IF LastAIIndex(answer.messages) = 0
                     THEN /\ Degrade(ErrNoAIResponse, now)
                          /\ UNCHANGED <<reply, scan_pos>>
                     ELSE /\ reply' = Some(answer.messages[LastAIIndex(answer.messages)].content)
                          /\ pc' = "scan"
                          /\ scan_pos' = 0
                          /\ UNCHANGED <<extracted_params, response>>
    /\ UNCHANGED request
    /\ UNCHANGED toolVars
    /\ UNCHANGED <<apiVars, threadVars, rateVars>>

\* lines 173-249: the next tool call of the scan
ScanStep ==
    /\ pc = "scan"
    /\ scan_pos < Len(AllToolCalls(messages))
    /\ LET r == ScanToolCall(extracted_params, AllToolCalls(messages)[scan_pos + 1]) IN
       IF r.raised
       THEN /\ Degrade(r.exc, Val(submitted).at)
            /\ UNCHANGED scan_pos
       ELSE /\ extracted_params' = r.acc
            /\ scan_pos' = scan_pos + 1
            /\ UNCHANGED <<pc, response>>
    /\ UNCHANGED <<request, submitted, messages, reply>>
    /\ UNCHANGED toolVars
    /\ UNCHANGED <<apiVars, threadVars, rateVars>>

\* lines 251-291: keyword scans over the reply and the ChatResponse
Analyze ==
    /\ pc = "scan"
    /\ scan_pos = Len(AllToolCalls(messages))
    /\ LET content == Val(reply) IN
       IF ~content.is_str
       THEN Degrade(ErrContentNotStr, Val(submitted).at)
       ELSE /\ pc' = "done"
            /\ response' = Some(NormalResponse(
                                    content.text, Val(submitted), extracted_params,
                                    NeedsClarification(StrLower(content.text)),
                                    MissingParams(content.text)))
            /\ UNCHANGED extracted_params
    /\ UNCHANGED <<request, submitted, messages, reply, scan_pos>>
    /\ UNCHANGED toolVars
    /\ UNCHANGED <<apiVars, threadVars, rateVars>>

NextTurn == ProcessStart \/ ScanStep \/ Analyze

SpecTurn == InitTurn /\ [][NextTurn]_vars
(***************************************************************************)
(* The HTTP layer: settings (core/config.py), the readiness probe          *)
(* (api/health.py) and the endpoints of api/chat.py.                       *)
(***************************************************************************)
\* os.getenv(name): None when the variable is not set
GetEnv(env, name) == env[name]

\* os.environ.setdefault(name, value): writes only when the name is not set
SetDefault(env, name, value) ==
    IF IsNone(env[name]) THEN [env EXCEPT ![name] = Some(value)] ELSE env

\* Settings(): openai_api_key and serpapi_api_key are required str fields
\* (config.py lines 46-47); a variable that is not set fails validation, an
\* empty one is a valid str.
NewSettings(env) ==
    IF \E k \in EnvKeys : IsNone(GetEnv(env, k))
    THEN [raised |-> TRUE]
    ELSE [raised |-> FALSE,
          instance |-> [openai_api_key |-> Val(GetEnv(env, "OPENAI_API_KEY")),
                        serpapi_api_key |-> Val(GetEnv(env, "SERPAPI_API_KEY"))]]

\* Mutant of SettingsFallbackEnv: the fallback leaves os.environ alone.
SettingsFallbackEnv_Untouched(env) == env

\* config.py lines 184-185: the fallback of get_settings
SettingsFallbackEnv(env) ==
    SetDefault(SetDefault(env, "OPENAI_API_KEY", PlaceholderOpenAI),
               "SERPAPI_API_KEY", PlaceholderSerpAPI)

\* get_settings(): the new values of the global and of os.environ
get_settings(global, env) ==
    IF ~IsNone(global) THEN [settings |-> global, env |-> env]
    ELSE LET first == NewSettings(env) IN
         IF ~first.raised
         THEN [settings |-> Some(first.instance), env |-> env]
         ELSE LET fallback == SettingsFallbackEnv(env) IN
              [settings |-> Some(NewSettings(fallback).instance), env |-> fallback]

\* JSON answer of the application: HTTPException(status, detail) goes through
\* http_exception_handler (main.py lines 181-192) with its status kept.
HttpError(status, detail) == [status |-> status, detail |-> detail]
HttpOk(body) == [status |-> 200, body |-> body]

\* readiness_check (health.py lines 150-187)
readiness_check(env) ==
    LET openai_key == GetEnv(env, "OPENAI_API_KEY")
        serpapi_key == GetEnv(env, "SERPAPI_API_KEY")
    IN  IF ~Truthy(openai_key) THEN HttpError(503, DetailOpenAIKey)
        ELSE IF ~Truthy(serpapi_key) THEN HttpError(503, DetailSerpAPIKey)
        ELSE HttpOk([status |-> "ready"])

\* the names services/hotel_service.py defines at module level
hotel_service_module == {"HotelSerpAPIService", "get_hotel_service"}

\* from ..services.hotel_service import <name>
ImportFromHotelService(name) ==
    IF name \in hotel_service_module
    THEN [raised |-> FALSE]
    ELSE Raise(ErrImportHotelService)

\* search_hotels_direct (chat.py lines 91-126): the body of the try block
\* and the except clause that turns every exception into HTTP 500
search_hotels_direct(body, env, answer) ==
    LET imported == ImportFromHotelService("HotelService") IN
    IF imported.raised
    THEN HttpError(500, DetailHotelSearchPrefix \o imported.exc)
    ELSE LET made == NewProviderClient(Truthy(GetEnv(env, "SERPAPI_API_KEY"))) IN
         IF made.raised
         THEN HttpError(500, DetailHotelSearchPrefix \o made.exc)
         ELSE HttpOk(ServiceSearchHotels(body, answer))

\* validation_exception_handler (main.py lines 159-179): a body that is not
\* a HotelSearchRequest is answered 422 before the endpoint runs
HotelSearchEndpoint(kw, env, answer) ==
    LET parsed == HotelSearchRequest(kw) IN
    IF parsed.raised
    THEN [status |-> 422, detail |-> parsed.exc]
    ELSE search_hotels_direct(parsed.request, env, answer)

(***************************************************************************)
(* Exceptions of the application (core/exceptions.py) and the exception    *)
(* handlers the application installs (main.py).                            *)
(***************************************************************************)
\* an exception object: its class and str(e)
Exc(class, text) == [class |-> class, text |-> text]

\* HTTPException(status_code, detail)
HTTPException(status_code, detail) ==
    [class |-> "HTTPException", status_code |-> status_code, text |-> detail]

\* EXCEPTION_STATUS_MAP (exceptions.py lines 235-250)
EXCEPTION_STATUS_MAP ==
    [ConfigurationError |-> 500, ExternalAPIError |-> 502, SerpAPIError |-> 502,
     OpenAIError |-> 502, AgentError |-> 500, FlightSearchError |-> 400,
     ParameterExtractionError |-> 400, RateLimitError |-> 429,
     AuthenticationError |-> 401, AuthorizationError |-> 403,
     ValidationError |-> 422, ConversationError |-> 400,
     ToolExecutionError |-> 500, TravelAgentException |-> 500]

\* get_http_status_code (exceptions.py lines 253-255)
get_http_status_code(exception) ==
    IF exception.class \in DOMAIN EXCEPTION_STATUS_MAP
    THEN EXCEPTION_STATUS_MAP[exception.class]
    ELSE 500

\* setup_exception_handlers (main.py lines 156-206): the answer the client
\* gets for an exception that leaves the endpoint or its dependencies
ExceptionHandler(exception) ==
    IF exception.class = "RequestValidationError"
    THEN HttpError(422, DetailValidationFailed)
    ELSE IF exception.class = "HTTPException"
    THEN HttpError(exception.status_code, exception.text)
    ELSE HttpError(500, DetailInternal)

(***************************************************************************)
(* The conversations held by the agent's checkpointer                      *)
(***************************************************************************)
ThreadIds == {"t1", "t2"}

NoConversations == [t \in ThreadIds |-> <<>>]

(***************************************************************************)
(* FlightSearchAgent.extract_flight_params (agents/flight_agent.py) and    *)
(* POST /chat/extract-params (api/chat.py)                                 *)
(***************************************************************************)
\* str.find(needle, start) with 1-based positions, 0 when there is none
FindFrom(s, needle, start) ==
    LET C == {i \in start..(Len(s) - Len(needle) + 1) :
                 \A k \in 1..Len(needle) : s[i + k - 1] = needle[k]}
    IN  IF C = {} THEN 0 ELSE CHOOSE i \in C : \A j \in C : i <= j

\* s.split(sep)[0]
SplitFirst(s, sep) ==
    LET i == FindFrom(s, sep, 1) IN
    IF i = 0 THEN s ELSE SubSeq(s, 1, i - 1)

\* s.split(sep)[1]: None when s.split(sep) has one element only
SplitSecond(s, sep) ==
    LET i == FindFrom(s, sep, 1) IN
    IF i = 0 THEN None
    ELSE Some(SplitFirst(SubSeq(s, i + Len(sep), Len(s)), sep))

WhiteSpace == {" ", "\t", "\n"}

\* str.strip()
StrStrip(s) ==
    LET C == {i \in 1..Len(s) : s[i] \notin WhiteSpace} IN
    IF C = {} THEN <<>>
    ELSE SubSeq(s, CHOOSE i \in C : \A j \in C : i <= j,
                   CHOOSE i \in C : \A j \in C : i >= j)

\* s.split()[0]: the first whitespace-delimited word, IndexError when none
FirstWord(s) ==
    LET t == StrStrip(s)
        W == {i \in 1..Len(t) : t[i] \in WhiteSpace}
    IN  IF t = <<>> THEN Raise(ErrListIndex)
        ELSE [raised |-> FALSE,
              word |-> IF W = {} THEN t
                       ELSE SubSeq(t, 1, (CHOOSE i \in W : \A j \in W : i <= j) - 1)]

\* re.match(r'\d{4}-\d{2}-\d{2}', s[i:]) with 1-based i
DateAt(s, i) ==
    /\ i + 9 <= Len(s)
    /\ \A k \in {0, 1, 2, 3, 5, 6, 8, 9} : IsDigit(s[i + k])
    /\ s[i + 4] = "-"
    /\ s[i + 7] = "-"

\* position of the first match at or after start, 0 when there is none
NextDate(s, start) ==
    LET C == {i \in start..Len(s) : DateAt(s, i)} IN
    IF C = {} THEN 0 ELSE CHOOSE i \in C : \A j \in C : i <= j

\* re.findall(date_pattern, message)[:2]: matches do not overlap
FirstTwoDates(s) ==
    LET a == NextDate(s, 1) IN
    IF a = 0 THEN <<>>
    ELSE LET b == NextDate(s, a + 10) IN
         IF b = 0 THEN <<SubSeq(s, a, a + 9)>>
         ELSE <<SubSeq(s, a, a + 9), SubSeq(s, b, b + 9)>>

\* FlightSearchParams() with its defaults (models/flight.py lines 158-166)
NewFlightSearchParams ==
    [departure_location |-> None, arrival_location |-> None,
     departure_date |-> None, return_date |-> None,
     passengers |-> 1, trip_type |-> "round_trip", travel_class |-> "economy"]

\* FlightSearchAgent.extract_flight_params (flight_agent.py lines 264-297)
extract_flight_params(message) ==
    LET message_lower == StrLower(message)
        has_both == Contains(message_lower, Kw_from) /\ Contains(message_lower, Kw_to)
        after_from == IF has_both THEN Val(SplitSecond(message_lower, Kw_from)) ELSE <<>>
        second == SplitSecond(after_from, Kw_to)
        located == has_both /\ ~IsNone(second)
        arrival == IF located THEN FirstWord(Val(second)) ELSE [raised |-> FALSE]
        dates == FirstTwoDates(message)
    IN  IF arrival.raised THEN Raise(arrival.exc)
        ELSE [raised |-> FALSE,
              params |->
                  [NewFlightSearchParams EXCEPT
                      !.departure_location =
                          IF located THEN Some(StrStrip(SplitFirst(after_from, Kw_to)))
                          ELSE None,
                      !.arrival_location =
                          IF located THEN Some(StrStrip(arrival.word)) ELSE None,
                      !.departure_date = IF Len(dates) >= 1 THEN Some(dates[1]) ELSE None,
                      !.return_date = IF Len(dates) >= 2 THEN Some(dates[2]) ELSE None]]

\* the methods class TravelAgent defines (travel_agent.py lines 25-350)
TravelAgentMethods ==
    {"__init__", "_get_system_prompt", "process_message",
     "get_conversation_state", "clear_conversation"}

\* get_travel_agent() (travel_agent.py lines 357-362).  failure is what
\* TravelAgent() does: None when it returns, Some(exception) when one of its
\* constructors raises; the global is assigned only when it returns.
get_travel_agent(global, failure) ==
    IF ~IsNone(global) THEN [raised |-> FALSE, global |-> global]
    ELSE IF IsNone(failure)
    THEN [raised |-> FALSE, global |-> Some([checkpointer |-> NoConversations])]
    ELSE [raised |-> TRUE, exc |-> Val(failure), global |-> global]

\* extract_flight_params of api/chat.py (lines 210-249): the answer and the
\* new value of the agent global
extract_params_endpoint(message, global, failure) ==
    IF message = <<>>
    THEN [response |-> HttpError(400, DetailMessageRequired), global |-> global]
    ELSE LET got == get_travel_agent(global, failure) IN
         IF got.raised
         THEN [response |-> HttpError(500, DetailExtractPrefix \o got.exc.text),
               global |-> got.global]
         ELSE IF "extract_flight_params" \notin TravelAgentMethods
         THEN [response |-> HttpError(500, DetailExtractPrefix \o ErrNoExtractAttr),
               global |-> got.global]
         ELSE LET r == extract_flight_params(message) IN
              [response |->
                   IF r.raised THEN HttpError(500, DetailExtractPrefix \o r.exc)
                   ELSE HttpOk([status |-> "success", message |-> message,
                                extracted_params |-> r.params]),
               global |-> got.global]

(***************************************************************************)
(* POST /chat/message, GET and DELETE /chat/conversation/{thread_id}       *)
(* (api/chat.py) with the TravelAgent methods they call                    *)
(***************************************************************************)
\* ChatRequest: message has min_length=1 (models/flight.py lines 215-218)
ChatRequestValid(message) == Len(message) >= 1

\* what agent.invoke leaves in the checkpointer for the thread: the human
\* message and, when the runtime answers, the reply after it
Checkpointed(agent, thread, answered) ==
    [agent EXCEPT !.checkpointer[thread] =
        @ \o (IF answered THEN <<"human", "ai">> ELSE <<"human">>)]

\* send_message (chat.py lines 20-53): the answer and the new agent global.
\* process_message returns a ChatResponse on every path (it catches what
\* the runtime raises), so only get_travel_agent() can raise in the try.
send_message(message, thread, global, failure, answered) ==
    IF ~ChatRequestValid(message)
    THEN [response |-> ExceptionHandler(Exc("RequestValidationError", <<>>)),
          global |-> global]
    ELSE LET got == get_travel_agent(global, failure) IN
         IF got.raised
         THEN [response |->
                   ExceptionHandler(HTTPException(500, DetailProcessPrefix \o got.exc.text)),
               global |-> got.global]
         ELSE [response |-> HttpOk([thread_id |-> thread,
                                    needs_clarification |-> ~answered]),
               global |-> Some(Checkpointed(Val(got.global), thread, answered))]

\* TravelAgent.get_conversation_state (travel_agent.py lines 301-332)
get_conversation_state(agent, thread_id) ==
    LET stored == agent.checkpointer[thread_id] IN
    IF stored = <<>> THEN None
    ELSE Some([messages |-> stored])

\* get_conversation_state of api/chat.py (lines 129-168)
conversation_state_endpoint(thread_id, global, failure) ==
    LET got == get_travel_agent(global, failure) IN
    IF got.raised
    THEN [response |->
              ExceptionHandler(HTTPException(500, DetailGetStatePrefix \o got.exc.text)),
          global |-> got.global]
    ELSE LET state == get_conversation_state(Val(got.global), thread_id) IN
         [response |->
              IF IsNone(state)
              THEN ExceptionHandler(HTTPException(404, <<"Conversation thread ", thread_id,
                                                     " not found">>))
              ELSE HttpOk([status |-> "success", thread_id |-> thread_id,
                           conversation_state |-> Val(state)]),
          global |-> got.global]

\* Mutant of clear_conversation: the thread's checkpoints are deleted.
clear_conversation_Deletes(agent, thread_id) ==
    [success |-> TRUE, agent |-> [agent EXCEPT !.checkpointer[thread_id] = <<>>]]

\* TravelAgent.clear_conversation (travel_agent.py lines 334-350): it logs
\* and returns True; the checkpointer is not touched
clear_conversation(agent, thread_id) ==
    [success |-> TRUE, agent |-> agent]

\* clear_conversation of api/chat.py (lines 171-207)
clear_conversation_endpoint(thread_id, global, failure) ==
    LET got == get_travel_agent(global, failure) IN
    IF got.raised
    THEN [response |->
              ExceptionHandler(HTTPException(500, DetailClearPrefix \o got.exc.text)),
          global |-> got.global]
    ELSE LET r == clear_conversation(Val(got.global), thread_id) IN
         [response |->
              HttpOk(IF r.success
                     THEN [status |-> "success",
                           message |-> <<"Conversation ", thread_id,
                                         " cleared successfully">>]
                     ELSE [status |-> "error",
                           message |-> <<"Failed to clear conversation ", thread_id>>]),
          global |-> Some(r.agent)]


(***************************************************************************)
(* Service specification: worker threads of one turn (the runtime runs the *)
(* tool calls of a turn on a thread pool) inside get_serpapi_service()     *)
(* (tools.py lines 22-27) and get_hotel_service() (hotel_service.py lines  *)
(* 417-422).  The getter is not atomic: the test of the global, the        *)
(* constructor call, the store to the global and the load for the return   *)
(* value are separate steps, and threads interleave between them.          *)
(***************************************************************************)
NumThreads == 2

Threads == 1..NumThreads

Domains == {"flight", "hotel"}

\* the module global of a domain
ServiceGlobal(domain) == IF domain = "flight" THEN serpapi_service ELSE hotel_service

IdleThread == [pc |-> "idle", domain |-> "flight", made |-> None, result |-> None]

InitService ==
    /\ env_serpapi_key \in BOOLEAN
    /\ serpapi_service = None
    /\ hotel_service = None
    /\ call = [op |-> "none"]
    /\ outcome = NoOutcome
    /\ provider_log = <<>>
    /\ TurnOff
    /\ ApiOff
    /\ RateOff
    /\ tool_threads = [t \in Threads |-> IdleThread]
    /\ clients_made = [d \in Domains |-> 0]

\* a tool running on thread t calls the getter of a domain
GetterCall(t) ==
    /\ tool_threads[t].pc \in {"idle", "done"}
    /\ \E d \in Domains :
          tool_threads' = [tool_threads EXCEPT ![t] = [IdleThread EXCEPT !.pc = "test",
                                                                         !.domain = d]]
    /\ UNCHANGED <<clients_made, serpapi_service, hotel_service>>
    /\ UNCHANGED <<env_serpapi_key, call, outcome, provider_log>>
    /\ UNCHANGED turnVars
    /\ UNCHANGED <<apiVars, rateVars>>

\* if <global> is None:
GetterTest(t) ==
    /\ tool_threads[t].pc = "test"
    /\ tool_threads' = [tool_threads EXCEPT ![t].pc =
                           IF IsNone(ServiceGlobal(tool_threads[t].domain))
                           THEN "construct" ELSE "return"]
    /\ UNCHANGED <<clients_made, serpapi_service, hotel_service>>
    /\ UNCHANGED <<env_serpapi_key, call, outcome, provider_log>>
    /\ UNCHANGED turnVars
    /\ UNCHANGED <<apiVars, rateVars>>

\* SerpAPIService() / HotelSerpAPIService(): the k-th client of the domain,
\* or ValueError when the key is not set
GetterConstruct(t) ==
    /\ tool_threads[t].pc = "construct"
    /\ LET d == tool_threads[t].domain
           made == NewProviderClient(env_serpapi_key)
       IN  IF made.raised
           THEN /\ tool_threads' = [tool_threads EXCEPT ![t].pc = "done",
                                                        ![t].result = Some(made)]
                /\ UNCHANGED clients_made
           ELSE /\ clients_made' = [clients_made EXCEPT ![d] = @ + 1]
                /\ tool_threads' =
                       [tool_threads EXCEPT
                           ![t].pc = "store",
                           ![t].made = Some([api_key |-> made.instance.api_key,
                                             id |-> clients_made[d] + 1])]
    /\ UNCHANGED <<serpapi_service, hotel_service>>
    /\ UNCHANGED <<env_serpapi_key, call, outcome, provider_log>>
    /\ UNCHANGED turnVars
    /\ UNCHANGED <<apiVars, rateVars>>

\* <global> = the new client
GetterStore(t) ==
    /\ tool_threads[t].pc = "store"
    /\ IF tool_threads[t].domain = "flight"
       THEN serpapi_service' = tool_threads[t].made /\ UNCHANGED hotel_service
       ELSE hotel_service' = tool_threads[t].made /\ UNCHANGED serpapi_service
    /\ tool_threads' = [tool_threads EXCEPT ![t].pc = "return"]
    /\ UNCHANGED clients_made
    /\ UNCHANGED <<env_serpapi_key, call, outcome, provider_log>>
    /\ UNCHANGED turnVars
    /\ UNCHANGED <<apiVars, rateVars>>

\* return <global>
GetterReturn(t) ==
    /\ tool_threads[t].pc = "return"
    /\ tool_threads' = [tool_threads EXCEPT
                           ![t].pc = "done",
                           ![t].result = Some([raised |-> FALSE,
                                               instance |->
                                                   Val(ServiceGlobal(tool_threads[t].domain))])]
    /\ UNCHANGED <<clients_made, serpapi_service, hotel_service>>
    /\ UNCHANGED <<env_serpapi_key, call, outcome, provider_log>>
    /\ UNCHANGED turnVars
    /\ UNCHANGED <<apiVars, rateVars>>

NextService ==
    \E t \in Threads :
        \/ GetterCall(t)
        \/ GetterTest(t)
        \/ GetterConstruct(t)
        \/ GetterStore(t)
        \/ GetterReturn(t)

SpecService == InitService /\ [][NextService]_vars


(***************************************************************************)
(* The rate limiter (core/dependencies.py)                                 *)
(***************************************************************************)
\* get_rate_limit_key (lines 96-115): user id first, then API key
get_rate_limit_key(user_id, api_key) ==
    IF ~IsNone(user_id) /\ Val(user_id) # ""
    THEN <<"user:", Val(user_id)>>
    ELSE IF ~IsNone(api_key) /\ Val(api_key) # ""
    THEN <<"api_key:", Val(api_key)>>
    ELSE <<"anonymous">>

\* self.requests[key] = value
SetEntry(ledger, key, value) ==
    [k \in DOMAIN ledger \cup {key} |-> IF k = key THEN value ELSE ledger[k]]

\* Mutant of KeepNewer: a timestamp exactly window seconds old is kept.
KeepNewer_Inclusive(times, window_start) ==
    SelectSeq(times, LAMBDA req_time : req_time >= window_start)

\* lines 146-149: [req_time for req_time in ... if req_time > window_start]
KeepNewer(times, window_start) ==
    SelectSeq(times, LAMBDA req_time : req_time > window_start)

\* Mutant of is_allowed: a denied request is recorded as well.
is_allowed_RecordsDenied(ledger, key, limit, window, now) ==
    LET kept == IF key \in DOMAIN ledger
                THEN KeepNewer(ledger[key], now - window) ELSE <<>>
    IN  [allowed |-> Len(kept) < limit,
         requests |-> SetEntry(ledger, key, Append(kept, now))]

\* RateLimiter.is_allowed (lines 127-159): the verdict and the new ledger
is_allowed(ledger, key, limit, window, now) ==
    LET window_start == now - window
        kept == IF key \in DOMAIN ledger
                THEN KeepNewer(ledger[key], window_start) ELSE <<>>
    IN  IF Len(kept) >= limit
        THEN [allowed |-> FALSE, requests |-> SetEntry(ledger, key, kept)]
        ELSE [allowed |-> TRUE, requests |-> SetEntry(ledger, key, Append(kept, now))]

(***************************************************************************)
(* Rate specification: the process-wide limiter called through             *)
(* check_rate_limit (lines 166-191) with the limit and window of the       *)
(* environment, while time passes.                                         *)
(***************************************************************************)
MaxLimit == 2
MaxWindow == 2
MaxTime == 3

UserIds == {None, Some("user_1")}
ApiKeys == {None, Some("k1")}

InitRate ==
    /\ rate_config \in [limit : 0..MaxLimit, window : 0..MaxWindow]
    /\ clock = 0
    /\ requests = <<>>
    /\ rate_call = [key |-> "none"]
    /\ ToolsOff
    /\ TurnOff
    /\ ApiOff
    /\ ThreadsOff

\* check_rate_limit for a request of some caller: 429 when is_allowed denies
CheckRateLimit ==
    /\ \E user_id \in UserIds, api_key \in ApiKeys :
          LET key == get_rate_limit_key(user_id, api_key)
              r == is_allowed(requests, key, rate_config.limit, rate_config.window, clock)
          IN  /\ requests' = r.requests
              /\ rate_call' = [key |-> key, now |-> clock, allowed |-> r.allowed,
                               status |-> IF r.allowed THEN 200 ELSE 429]
    /\ UNCHANGED <<rate_config, clock>>
    /\ UNCHANGED <<toolVars, turnVars, apiVars, threadVars>>

\* time.time() advances
Tick ==
    /\ clock < MaxTime
    /\ clock' = clock + 1
    /\ UNCHANGED <<rate_config, requests, rate_call>>
    /\ UNCHANGED <<toolVars, turnVars, apiVars, threadVars>>

NextRate ==
    \/ CheckRateLimit
    \/ Tick

SpecRate == InitRate /\ [][NextRate]_vars

(***************************************************************************)
(* API specification: a process started with some environment, the first   *)
(* get_settings() call (create_app, main.py line 60) and the requests.     *)
(***************************************************************************)
EnvValues == {None, Some(Key_empty), Some(Key_provided)}

Environments == [EnvKeys -> EnvValues]

HotelBodies ==
    [q : {Loc_Paris},
     check_in_date : {Val(ParseDate(Date_2026_01_30))},
     check_out_date : {Val(ParseDate(Date_2026_01_30)), Val(ParseDate(Date_2026_02_01))},
     adults : {2, 21},
     sort_by : {"RELEVANCE"},
     max_price : {None, Some(200)},
     vacation_rentals : {FALSE}]

\* what may leave TravelAgent(): nothing, or an exception of some class
AgentFailures ==
    {None} \cup {Some(Exc(c, ErrAgentInit)) :
                    c \in {"RuntimeError", "ExternalAPIError", "RateLimitError",
                           "AuthenticationError", "AuthorizationError",
                           "ValidationError"}}

MaxStored == 2

ExtractMessages == {<<>>, Msg_trip, Msg_no_arrival, Msg_hotels}

\* the tool layer and the chat turn are not running in the API specification
InitApi ==
    /\ process_environ \in Environments
    /\ os_environ = process_environ
    /\ settings = None
    /\ http_exchange = NoExchange
    /\ travel_agent = None
    /\ env_serpapi_key = Truthy(GetEnv(os_environ, "SERPAPI_API_KEY"))
    /\ serpapi_service = None
    /\ hotel_service = None
    /\ call = [op |-> "none"]
    /\ outcome = NoOutcome
    /\ provider_log = <<>>
    /\ TurnOff
    /\ ThreadsOff
    /\ RateOff

\* the first get_settings() of the process
GetSettings ==
    /\ IsNone(settings)
    /\ LET r == get_settings(settings, os_environ) IN
       /\ settings' = r.settings
       /\ os_environ' = r.env
       /\ env_serpapi_key' = Truthy(GetEnv(r.env, "SERPAPI_API_KEY"))
    /\ UNCHANGED <<process_environ, http_exchange, travel_agent>>
    /\ UNCHANGED <<serpapi_service, hotel_service, call, outcome, provider_log>>
    /\ UNCHANGED turnVars
    /\ UNCHANGED <<threadVars, rateVars>>

\* GET /health/ready
ReadinessCheck ==
    /\ http_exchange' = [path |-> "/health/ready",
                         settings_loaded |-> ~IsNone(settings),
                         response |-> readiness_check(os_environ)]
    /\ UNCHANGED <<process_environ, os_environ, settings, travel_agent>>
    /\ UNCHANGED toolVars
    /\ UNCHANGED turnVars
    /\ UNCHANGED <<threadVars, rateVars>>

\* POST /chat/hotel-search
SearchHotelsDirect ==
    /\ \E kw \in HotelBodies, answer \in HotelProviderAnswers :
           http_exchange' = [path |-> "/chat/hotel-search",
                             body |-> kw,
                             response |-> HotelSearchEndpoint(kw, os_environ, answer)]
    /\ UNCHANGED <<process_environ, os_environ, settings, travel_agent>>
    /\ UNCHANGED toolVars
    /\ UNCHANGED turnVars
    /\ UNCHANGED <<threadVars, rateVars>>

\* POST /chat/extract-params
ExtractParams ==
    /\ \E message \in ExtractMessages, failure \in AgentFailures :
           LET r == extract_params_endpoint(message, travel_agent, failure) IN
           /\ http_exchange' = [path |-> "/chat/extract-params",
                                message |-> message,
                                response |-> r.response]
           /\ travel_agent' = r.global
    /\ UNCHANGED <<process_environ, os_environ, settings>>
    /\ UNCHANGED toolVars
    /\ UNCHANGED turnVars
    /\ UNCHANGED <<threadVars, rateVars>>

\* POST /chat/message
SendMessage ==
    /\ \E message \in {<<>>, Text_user}, thread \in ThreadIds,
          failure \in AgentFailures, answered \in BOOLEAN :
           LET r == send_message(message, thread, travel_agent, failure, answered) IN
           /\ IF IsNone(travel_agent) THEN TRUE
              ELSE Len(Val(travel_agent).checkpointer[thread]) + 2 <= MaxStored
           /\ http_exchange' = [path |-> "/chat/message",
                                message |-> message,
                                thread_id |-> thread,
                                raised |-> IF ChatRequestValid(message) /\ IsNone(travel_agent)
                                           THEN failure ELSE None,
                                response |-> r.response]
           /\ travel_agent' = r.global
    /\ UNCHANGED <<process_environ, os_environ, settings>>
    /\ UNCHANGED toolVars
    /\ UNCHANGED turnVars
    /\ UNCHANGED <<threadVars, rateVars>>

\* GET /chat/conversation/{thread_id}
GetConversation ==
    /\ \E thread \in ThreadIds, failure \in AgentFailures :
           LET r == conversation_state_endpoint(thread, travel_agent, failure) IN
           /\ http_exchange' = [path |-> "GET /chat/conversation",
                                thread_id |-> thread,
                                response |-> r.response]
           /\ travel_agent' = r.global
    /\ UNCHANGED <<process_environ, os_environ, settings>>
    /\ UNCHANGED toolVars
    /\ UNCHANGED turnVars
    /\ UNCHANGED <<threadVars, rateVars>>

\* DELETE /chat/conversation/{thread_id}
ClearConversation ==
    /\ \E thread \in ThreadIds, failure \in AgentFailures :
           LET r == clear_conversation_endpoint(thread, travel_agent, failure) IN
           /\ http_exchange' = [path |-> "DELETE /chat/conversation",
                                thread_id |-> thread,
                                response |-> r.response]
           /\ travel_agent' = r.global
    /\ UNCHANGED <<process_environ, os_environ, settings>>
    /\ UNCHANGED toolVars
    /\ UNCHANGED turnVars
    /\ UNCHANGED <<threadVars, rateVars>>

NextApi ==
    \/ GetSettings
    \/ ReadinessCheck
    \/ SearchHotelsDirect
    \/ ExtractParams
    \/ SendMessage
    \/ GetConversation
    \/ ClearConversation

SpecApi == InitApi /\ [][NextApi]_vars


(***************************************************************************)
(* Properties                                                              *)
(***************************************************************************)
\* a provider client exists or can be constructed
ClientAvailable == env_serpapi_key \/ serpapi_service # None

ThreeLetterCode(location) == Len(location) = 3 /\ IsAlpha(location)

\* the location matches an entry of the city table, in either direction
InCityTable(location) ==
    \E i \in 1..Len(airport_mappings) :
        \/ Contains(airport_mappings[i].city, StrLower(location))
        \/ Contains(StrLower(location), airport_mappings[i].city)

\* the location resolves to a code in the current process
Resolvable(location) ==
    ThreeLetterCode(location) \/ (ClientAvailable /\ InCityTable(location))

FlightToolDone == outcome.kind # "none" /\ outcome.op = "search_flights"
HotelToolDone == outcome.kind # "none" /\ outcome.op = "search_hotels"

\* C1: during the scan of process_message, once search_type is "both" it is
\* still "both" after every later tool call of the same scan.
C1_SearchTypeStaysBoth ==
    [][(/\ extracted_params # None
        /\ Val(extracted_params).search_type = "both"
        /\ pc' = "scan")
       => (/\ extracted_params' # None
           /\ Val(extracted_params').search_type = "both")]_vars

C2_Departure == <<"d", "e", "p", "a", "r", "t", "u", "r", "e">>

\* C2 as stated: every reply containing "departure" has "departure_location"
\* among the missing_params of the response.
C2_DepartureAlwaysListed ==
    (pc = "done" /\ Contains(Val(response).message, C2_Departure))
    => "departure_location" \in Range(Val(response).missing_params)

C2_Indicators ==
    {<<"w", "h", "a", "t">>,
     <<"w", "h", "e", "n">>,
     <<"w", "h", "e", "r", "e">>,
     <<"w", "h", "i", "c", "h">>,
     <<"h", "o", "w", " ", "m", "a", "n", "y">>,
     <<"n", "e", "e", "d", " ", "t", "o", " ", "k", "n", "o", "w">>,
     <<"p", "l", "e", "a", "s", "e", " ", "p", "r", "o", "v", "i", "d", "e">>,
     <<"c", "a", "n", " ", "y", "o", "u", " ", "t", "e", "l", "l", " ", "m", "e">>,
     <<"m", "i", "s", "s", "i", "n", "g">>,
     <<"r", "e", "q", "u", "i", "r", "e">>,
     <<"s", "p", "e", "c", "i", "f", "y">>}

C2_HasIndicator(text_lower) ==
    \E kw \in C2_Indicators : Contains(text_lower, kw)

\* C2 amended: on a turn that returns normally, missing_params is empty when
\* the lowercased reply holds no clarification indicator, and holds
\* "departure_location" whenever the lowercased reply holds an indicator and
\* "departure", whatever tool calls were scanned.
C2_DepartureListedWhenClarifying ==
    pc = "done" =>
        LET r == Val(response)
            low == StrLower(r.message)
        IN  /\ (C2_HasIndicator(low) /\ Contains(low, C2_Departure))
               => "departure_location" \in Range(r.missing_params)
            /\ ~C2_HasIndicator(low) => r.missing_params = <<>>

C2_Witness ==
    /\ pc = "done"
    /\ Val(response).message = Reply_specify_upper
    /\ Val(response).extracted_params # None
    /\ "departure_location" \in Range(Val(response).missing_params)

\* C3: search_flights with trip_type "round_trip", no return date, locations
\* that resolve and a valid departure date returns the error "Return date is
\* required for round trip flights." and issues no provider query.
C3_RoundTripNeedsReturnDate ==
    (/\ FlightToolDone
     /\ call.args.trip_type = "round_trip"
     /\ IsNone(call.args.return_date)
     /\ Resolvable(call.args.departure_location)
     /\ Resolvable(call.args.arrival_location)
     /\ ParseDate(call.args.departure_date) # None)
    => (/\ outcome.kind = "return"
        /\ outcome.payload = ErrorPayload(ErrReturnRequired)
        /\ provider_log = <<>>)

C3_Witness ==
    /\ FlightToolDone
    /\ call.args.departure_location = Loc_jfk
    /\ call.args.arrival_location = Loc_par
    /\ call.args.departure_date = Date_2026_01_30
    /\ call.args.trip_type = "round_trip"
    /\ IsNone(call.args.return_date)
    /\ outcome.payload = ErrorPayload(ErrReturnRequired)

\* the case C4 is about: the tool ran with resolvable locations, a valid
\* outbound date, passengers within the schema bounds and a valid return date
C4_Case ==
    /\ FlightToolDone
    /\ Resolvable(call.args.departure_location)
    /\ Resolvable(call.args.arrival_location)
    /\ ParseDate(call.args.departure_date) # None
    /\ call.args.passengers \in AdultsMin..AdultsMax
    /\ Truthy(call.args.return_date)
    /\ ParseDate(Val(call.args.return_date)) # None

C4_ReturnAfterOutbound ==
    DateLT(Val(ParseDate(call.args.departure_date)),
           Val(ParseDate(Val(call.args.return_date))))

C4_RequestSent ==
    /\ Len(provider_log) = 1
    /\ provider_log[1].request.outbound_date = Val(ParseDate(call.args.departure_date))
    /\ provider_log[1].request.return_date = ParseDate(Val(call.args.return_date))

C4_Rejected ==
    /\ outcome.kind = "return"
    /\ outcome.payload = ErrorPayload(ErrReturnNotAfter)
    /\ provider_log = <<>>

\* C4 as stated: a return date after the outbound date gives a request that
\* is sent to the provider; a return date on or before it gives the error
\* "Return date must be after departure date." and no request.
C4_LaterReturnIsSent ==
    C4_Case => IF C4_ReturnAfterOutbound THEN C4_RequestSent ELSE C4_Rejected

\* C4 amended: as stated when a provider client is available; when none can
\* be constructed (no SERPAPI_API_KEY) a later return date still builds the
\* request but the tool returns "Flight search failed: SerpAPI key is
\* required..." and nothing is sent.
C4_LaterReturnIsSentWhenClientAvailable ==
    C4_Case =>
        IF ~C4_ReturnAfterOutbound THEN C4_Rejected
        ELSE IF ClientAvailable THEN C4_RequestSent
        ELSE /\ outcome.kind = "return"
             /\ outcome.payload = ErrorPayload(ErrFlightSearchFailed \o ErrKeyRequired)
             /\ provider_log = <<>>

C4_Witness ==
    /\ C4_Case
    /\ call.args.trip_type = "one_way"
    /\ call.args.return_date = Some(Date_2026_2_9)
    /\ C4_RequestSent

\* C5: every FlightSearchRequest constructed with trip type ROUND_TRIP,
\* directly or through FlightSearchParams.to_search_request, has a return
\* date that is present and strictly after its outbound date.
C5_RoundTripRequestHasLaterReturn ==
    (/\ outcome.kind = "return"
     /\ call.op = "search_flights"
     /\ outcome.op \in {"FlightSearchRequest", "to_search_request"})
    => LET built == IF outcome.op = "FlightSearchRequest"
                    THEN Some(outcome.value) ELSE outcome.value
       IN  (~IsNone(built) /\ Val(built).trip_type = "ROUND_TRIP")
           => (/\ ~IsNone(Val(built).return_date)
               /\ DateLT(Val(built).outbound_date, Val(Val(built).return_date)))

C6_DatesInverted ==
    /\ call.op = "search_hotels"
    /\ ParseDate(call.args.check_in_date) # None
    /\ ParseDate(call.args.check_out_date) # None
    /\ DateLE(Val(ParseDate(call.args.check_out_date)),
              Val(ParseDate(call.args.check_in_date)))

\* C6: with a check-out date on or before the check-in date, search_hotels
\* returns the error "Check-out date must be after check-in date." without a
\* provider query, HotelSearchRequest raises its validation error, and
\* HotelSearchParams.to_search_request yields no request.
C6_InvertedHotelDatesRejected ==
    (outcome.kind # "none" /\ C6_DatesInverted) =>
        CASE outcome.op = "search_hotels" ->
                /\ outcome.kind = "return"
                /\ outcome.payload = ErrorPayload(ErrCheckOutNotAfter)
                /\ provider_log = <<>>
          [] outcome.op = "HotelSearchRequest" ->
                /\ outcome.kind = "raise"
                /\ outcome.exc = ValidationErrorPrefix \o ValCheckOutNotAfter
          [] outcome.op = "to_search_request" ->
                outcome.value = None
          [] OTHER -> TRUE

C6_Witness ==
    /\ HotelToolDone
    /\ call.args.check_in_date = Date_2026_02_01
    /\ call.args.check_out_date = Date_2026_01_30
    /\ outcome.payload = ErrorPayload(ErrCheckOutNotAfter)
    /\ provider_log = <<>>

C7_Errors ==
    {ErrRuntime, ErrNoResponse, ErrNoAIResponse, ErrArgsNotDict,
     ErrParamsInvalid, ErrContentNotStr}

C7_Degraded(r) ==
    /\ \E e \in C7_Errors : r.message = ApologyPrefix \o e \o ApologySuffix
    /\ r.needs_clarification = TRUE
    /\ r.flight_results = None
    /\ r.hotel_results = None
    /\ r.extracted_params = None

C7_MalformedCalls == {FlightCallMalformed, HotelCallNoArgs}

\* C7: process_message never raises; a turn in which the runtime raises or
\* returns no message or no assistant message, or in which a scanned tool
\* call is malformed, ends in the degraded response: the apology template
\* around the error text, needs_clarification true, no results, no extracted
\* parameters.
C7_FailuresGiveDegradedResponse ==
    /\ pc \in {"start", "scan", "done", "degraded"}
    /\ pc = "degraded" => (response # None /\ C7_Degraded(Val(response)))
    /\ (pc # "start" /\ (messages = <<>> \/ LastAIIndex(messages) = 0))
       => pc = "degraded"
    /\ (pc \in {"done", "degraded"}
        /\ Range(AllToolCalls(messages)) \cap C7_MalformedCalls # {})
       => pc = "degraded"

C7_Witness ==
    /\ pc = "degraded"
    /\ Range(AllToolCalls(messages)) \cap C7_MalformedCalls # {}
    /\ Val(response).message = ApologyPrefix \o ErrParamsInvalid \o ApologySuffix

\* C8: search_flights and search_hotels never raise, and the object they
\* return carries either an "error" string or "success": true, never both
\* and never neither.
C8_ToolsReturnErrorOrSuccess ==
    (FlightToolDone \/ HotelToolDone) =>
        /\ outcome.kind = "return"
        /\ LET p == outcome.payload IN
           ("error" \in DOMAIN p) # ("success" \in DOMAIN p /\ p.success = TRUE)

C8_Witness ==
    /\ FlightToolDone
    /\ call.args.passengers = 10
    /\ outcome.kind = "return"
    /\ outcome.payload =
           ErrorPayload(ErrFlightSearchFailed \o ValidationErrorPrefix \o ValAdultsRange)

C9_NoRule(location) == ~ThreeLetterCode(location) /\ ~InCityTable(location)

C9_StructuredError ==
    /\ outcome.kind = "return"
    /\ "error" \in DOMAIN outcome.payload
    /\ provider_log = <<>>

\* C9 as stated: for a departure or arrival string that is no three-letter
\* token and matches no city, the tool returns an error containing that
\* string and issues no provider request.
C9_ErrorNamesEveryUnresolvedLocation ==
    FlightToolDone =>
        \A location \in {call.args.departure_location, call.args.arrival_location} :
            C9_NoRule(location)
            => (C9_StructuredError /\ Contains(outcome.payload.error, location))

\* C9 amended: when either location is such a string the tool returns a
\* structured error and issues no provider request; when a provider client
\* is available, the error text contains the departure string if the
\* departure is such a string, and the arrival string if the departure
\* resolves and the arrival is such a string.
C9_ErrorNamesFirstUnresolvedLocation ==
    FlightToolDone =>
        LET dep == call.args.departure_location
            arr == call.args.arrival_location
        IN  /\ (C9_NoRule(dep) \/ C9_NoRule(arr)) => C9_StructuredError
            /\ (ClientAvailable /\ C9_NoRule(dep))
               => Contains(outcome.payload.error, dep)
            /\ (ClientAvailable /\ ~C9_NoRule(dep) /\ C9_NoRule(arr))
               => Contains(outcome.payload.error, arr)

C9_Witness ==
    /\ FlightToolDone
    /\ call.args.departure_location = Loc_Paris
    /\ call.args.arrival_location = Loc_Gotham_City
    /\ outcome.payload = ArrivalUnresolved(Loc_Gotham_City)
    /\ provider_log = <<>>

\* C10: for a string of exactly three alphabetic characters
\* _resolve_airport_code returns the string uppercased, without a table
\* lookup: "par" gives "PAR" although it is part of "paris", and no provider
\* client is needed.
C10_ThreeLettersUppercased ==
    (/\ outcome.kind # "none"
     /\ outcome.op = "_resolve_airport_code"
     /\ ThreeLetterCode(outcome.location))
    => (/\ outcome.kind = "return"
        /\ outcome.value = Some(StrUpper(outcome.location))
        /\ outcome.location = Loc_par => outcome.value = Some(<<"P", "A", "R">>)
        /\ outcome.location = Loc_jfk => outcome.value = Some(<<"J", "F", "K">>))

C10_Witness ==
    /\ outcome.kind = "return"
    /\ outcome.op = "_resolve_airport_code"
    /\ outcome.location = Loc_par
    /\ outcome.value = Some(<<"P", "A", "R">>)
    /\ ~env_serpapi_key

\* rows of the city table whose city name is contained in the lowercased string
C11_CitiesIn(location) ==
    {i \in 1..Len(airport_mappings) :
        Contains(StrLower(location), airport_mappings[i].city)}

C11_Case ==
    /\ outcome.kind # "none"
    /\ outcome.op = "_resolve_airport_code"
    /\ ~ThreeLetterCode(outcome.location)
    /\ C11_CitiesIn(outcome.location) # {}

\* C11 as stated: for every known city whose name the non-3-letter string
\* contains, _resolve_airport_code returns that city's first listed code.
C11_EveryContainedCityResolves ==
    C11_Case =>
        \A i \in C11_CitiesIn(outcome.location) :
            /\ outcome.kind = "return"
            /\ outcome.value = Some(airport_mappings[i].codes[1])

\* C11 amended: when a provider client exists or can be constructed, a
\* non-3-letter string containing known city names resolves to the first
\* listed code of the contained city that comes first in the table's order
\* ("new york city" gives "JFK"; a string naming paris and london gives
\* london's "LHR"); without a client the resolver raises the missing-key
\* error.
C11_FirstContainedCityResolves ==
    C11_Case =>
        LET first == CHOOSE i \in C11_CitiesIn(outcome.location) :
                         \A j \in C11_CitiesIn(outcome.location) : i <= j
        IN  IF ClientAvailable
            THEN /\ outcome.kind = "return"
                 /\ outcome.value = Some(airport_mappings[first].codes[1])
            ELSE /\ outcome.kind = "raise"
                 /\ outcome.exc = ErrKeyRequired

C11_Witness ==
    /\ C11_Case
    /\ outcome.location = Loc_paris_london
    /\ outcome.kind = "return"
    /\ outcome.value = Some(<<"L", "H", "R">>)

\* the five checks of search_flights in the order the claim gives, each with
\* the condition under which it fails and the error it reports
C12_Checks ==
    LET a == call.args
        outbound == ParseDate(a.departure_date)
        supplied == Truthy(a.return_date)
        parsed == IF supplied THEN ParseDate(Val(a.return_date)) ELSE None
    IN  << [fails |-> C9_NoRule(a.departure_location),
            error |-> ErrResolveDeparture \o a.departure_location \o ErrResolveHint],
           [fails |-> C9_NoRule(a.arrival_location),
            error |-> ErrResolveArrival \o a.arrival_location \o ErrResolveHint],
           [fails |-> IsNone(outbound),
            error |-> ErrDepartureDateFormat \o a.departure_date \o ErrDateHint],
           [fails |-> supplied /\ IsNone(parsed),
            error |-> IF supplied
                      THEN ErrReturnDateFormat \o Val(a.return_date) \o ErrDateHint
                      ELSE <<>>],
           [fails |-> /\ supplied
                      /\ ~IsNone(parsed)
                      /\ ~IsNone(outbound)
                      /\ DateLE(Val(parsed), Val(outbound)),
            error |-> ErrReturnNotAfter],
           [fails |-> a.trip_type = "round_trip" /\ ~supplied,
            error |-> ErrReturnRequired] >>

C12_Failing == {i \in 1..Len(C12_Checks) : C12_Checks[i].fails}

C12_FirstFailureReported ==
    LET first == CHOOSE i \in C12_Failing : \A j \in C12_Failing : i <= j IN
    /\ outcome.kind = "return"
    /\ outcome.payload = ErrorPayload(C12_Checks[first].error)
    /\ provider_log = <<>>

\* a location has to be looked up in the table and no client can be made
C12_LookupWithoutClient ==
    /\ ~ClientAvailable
    /\ \/ ~ThreeLetterCode(call.args.departure_location)
       \/ ~ThreeLetterCode(call.args.arrival_location)

\* C12 as stated: when several checks of search_flights would fail, the
\* error returned is that of the earliest failing check in the order
\* departure unresolved, arrival unresolved, outbound date malformed, return
\* date malformed or not after outbound, round trip without return date.
C12_EarliestCheckWins ==
    (FlightToolDone /\ C12_Failing # {}) => C12_FirstFailureReported

\* C12 amended: the order holds whenever the locations can be looked up
\* (both are three-letter tokens, or a provider client exists or can be
\* constructed); when a location needs the table and no client can be
\* constructed, the tool returns "Flight search failed: SerpAPI key is
\* required..." before any of the checks, and issues no provider query.
C12_EarliestCheckWinsAfterLookup ==
    FlightToolDone =>
        IF C12_LookupWithoutClient
        THEN /\ outcome.kind = "return"
             /\ outcome.payload = ErrorPayload(ErrFlightSearchFailed \o ErrKeyRequired)
             /\ provider_log = <<>>
        ELSE C12_Failing # {} => C12_FirstFailureReported

C12_Witness ==
    /\ FlightToolDone
    /\ call.args.departure_location = Loc_Atlantis
    /\ call.args.arrival_location = Loc_Gotham_City
    /\ call.args.departure_date = Date_slashes
    /\ call.args.return_date = Some(Date_2026_02_30)
    /\ call.args.trip_type = "round_trip"
    /\ outcome.payload = ErrorPayload(ErrResolveDeparture \o Loc_Atlantis \o ErrResolveHint)

C13_FlightFields ==
    {"departure_location", "arrival_location", "departure_date", "return_date",
     "passengers", "trip_type", "travel_class"}

C13_HotelFields ==
    {"hotel_location", "check_in_date", "check_out_date", "guests", "rooms",
     "hotel_class", "max_price", "vacation_rental"}

\* an optional argument of a recorded call: absent or null is None
C13_Optional(items, key) ==
    IF key \in DOMAIN items /\ items[key].t = "str" THEN Some(items[key].v)
    ELSE IF key \in DOMAIN items /\ items[key].t = "int" THEN Some(items[key].n)
    ELSE None

\* an argument with a default in the tool's signature
C13_OrDefault(items, key, default) ==
    IF key \notin DOMAIN items THEN default
    ELSE CASE items[key].t = "str" -> items[key].v
           [] items[key].t = "int" -> items[key].n
           [] items[key].t = "bool" -> items[key].b

\* the flight fields a search_flights call stands for; search_flights
\* defaults: passengers 1, trip_type "round_trip", travel_class "economy"
C13_FlightValues(items) ==
    [departure_location |-> C13_Optional(items, "departure_location"),
     arrival_location |-> C13_Optional(items, "arrival_location"),
     departure_date |-> C13_Optional(items, "departure_date"),
     return_date |-> C13_Optional(items, "return_date"),
     passengers |-> C13_OrDefault(items, "passengers", 1),
     trip_type |-> C13_OrDefault(items, "trip_type", "round_trip"),
     travel_class |-> C13_OrDefault(items, "travel_class", "economy")]

\* the hotel fields a search_hotels call stands for; search_hotels defaults:
\* guests 2, rooms 1, vacation_rental False
C13_HotelValues(items) ==
    [hotel_location |-> C13_Optional(items, "location"),
     check_in_date |-> C13_Optional(items, "check_in_date"),
     check_out_date |-> C13_Optional(items, "check_out_date"),
     guests |-> C13_OrDefault(items, "guests", 2),
     rooms |-> C13_OrDefault(items, "rooms", 1),
     hotel_class |-> C13_Optional(items, "hotel_class"),
     max_price |-> C13_Optional(items, "max_price"),
     vacation_rental |-> C13_OrDefault(items, "vacation_rental", FALSE)]

\* index of the last call named `name` among the first n scanned, 0 if none
C13_LastCall(name, n) ==
    LET calls == AllToolCalls(messages)
        idx == {i \in 1..n : calls[i].name = name}
    IN  IF idx = {} THEN 0 ELSE CHOOSE i \in idx : \A j \in idx : j <= i

\* acc is what last-writer-wins gives after the first n tool calls
C13_LastWriterWins(acc, n) ==
    LET calls == AllToolCalls(messages)
        f == C13_LastCall("search_flights", n)
        h == C13_LastCall("search_hotels", n)
    IN  /\ (f > 0 \/ h > 0) => ~IsNone(acc)
        /\ f > 0 => \A k \in C13_FlightFields :
                        Val(acc)[k] = C13_FlightValues(calls[f].args.items)[k]
        /\ h > 0 => \A k \in C13_HotelFields :
                        Val(acc)[k] = C13_HotelValues(calls[h].args.items)[k]

\* C13: after every scanned tool call the flight fields of the extracted
\* parameters are those of the last search_flights call and the hotel fields
\* those of the last search_hotels call (absent arguments at the signature's
\* default); a search_flights call leaves every hotel field as it was and a
\* search_hotels call leaves every flight field as it was; the response of
\* the turn carries these parameters.
C13_ScanIsLastWriterWins ==
    [][/\ (pc = "scan" /\ pc' = "scan" /\ scan_pos' = scan_pos + 1)
          => /\ C13_LastWriterWins(extracted_params', scan_pos')
             /\ LET tc == AllToolCalls(messages)[scan_pos'] IN
                /\ (tc.name = "search_flights" /\ ~IsNone(extracted_params))
                   => \A k \in C13_HotelFields :
                          Val(extracted_params')[k] = Val(extracted_params)[k]
                /\ (tc.name = "search_hotels" /\ ~IsNone(extracted_params))
                   => \A k \in C13_FlightFields :
                          Val(extracted_params')[k] = Val(extracted_params)[k]
       /\ (pc = "scan" /\ pc' = "done")
          => /\ Val(response').extracted_params = extracted_params
             /\ C13_LastWriterWins(Val(response').extracted_params, scan_pos)]_vars

C13_Witness ==
    /\ pc = "done"
    /\ AllToolCalls(messages) = <<HotelCallFull, FlightCallFull, FlightCallRequired>>
    /\ Val(Val(response).extracted_params).passengers = 1
    /\ Val(Val(response).extracted_params).return_date = None
    /\ Val(Val(response).extracted_params).guests = 3

C14_TurnEnded == pc \in {"done", "degraded"} /\ ~IsNone(response)

\* C14: a request with a non-empty thread_id gets exactly that thread_id back
\* on the normal and on the degraded path; a request without one (absent or
\* empty) gets a generated "thread_<timestamp>" id.
C14_ThreadIdEchoedOrGenerated ==
    C14_TurnEnded =>
        LET given == request.thread_id
            returned == Val(response).thread_id
        IN  IF ~IsNone(given) /\ Val(given) # ""
            THEN returned.id = Val(given) /\ returned.at = 0
            ELSE returned.id = "thread_" /\ returned.at \in 1..MaxClock

C14_Witness ==
    /\ pc = "degraded"
    /\ request.thread_id = Some("t1")
    /\ Val(response).thread_id.id = "t1"
    /\ Val(response).needs_clarification

\* positions of the assistant-authored messages of the returned sequence
C15_Assistant == {i \in 1..Len(messages) : messages[i].type = "ai"}

C15_Apology(text) == ApologyPrefix \o text \o ApologySuffix

\* C15: the reply of a turn that returns normally is the content of the last
\* assistant message of the sequence the runtime returned, whatever precedes
\* or follows it; a sequence without an assistant message ends the turn in
\* the degraded response carrying the "No AI response found" error (or "No
\* response from agent" when the sequence is empty).
C15_ReplyIsLastAssistantMessage ==
    /\ pc = "done" =>
          \E i \in C15_Assistant :
              /\ \A j \in C15_Assistant : j <= i
              /\ messages[i].content.is_str
              /\ Val(response).message = messages[i].content.text
    /\ (pc # "start" /\ C15_Assistant = {}) =>
          /\ pc = "degraded"
          /\ messages # <<>> => Val(response).message = C15_Apology(ErrNoAIResponse)
          /\ messages = <<>> =>
                 Val(response).message \in {C15_Apology(ErrNoResponse),
                                            C15_Apology(ErrRuntime)}

C15_Witness ==
    /\ pc = "done"
    /\ messages = <<AIMessage(StrContent(Reply_ask_departure), <<>>),
                    ToolMessage(Text_tool_output)>>
    /\ Val(response).message = Reply_ask_departure

\* C16: on a turn that returns normally, needs_clarification is true exactly
\* when the lowercased reply contains one of the eleven indicator strings.
C16_ClarificationIffIndicator ==
    pc = "done" =>
        (Val(response).needs_clarification
         <=> C2_HasIndicator(StrLower(Val(response).message)))

C16_Witness ==
    /\ pc = "done"
    /\ Val(response).message = Reply_specify_upper
    /\ Val(response).needs_clarification

\* the hotel tool returned its success payload for the provider's properties
C17_Case ==
    /\ HotelToolDone
    /\ outcome.kind = "return"
    /\ "success" \in DOMAIN outcome.payload
    /\ Len(provider_log) = 1

\* the extracted lowest nightly rates of the properties that have one
C17_Rates ==
    LET properties == provider_log[1].answer.properties IN
    {Val(properties[i]) : i \in {j \in 1..Len(properties) : ~IsNone(properties[j])}}

\* C17: the price_range of a successful search_hotels is null when no
\* returned property has an extracted lowest nightly rate, and otherwise the
\* minimum and maximum of the rates of every property that has one, taken
\* over all returned properties and not only the three shown.
C17_PriceRangeOverAllRates ==
    C17_Case =>
        outcome.payload.price_range =
            IF C17_Rates = {} THEN None
            ELSE Some([lowest |-> CHOOSE x \in C17_Rates : \A y \in C17_Rates : x <= y,
                       highest |-> CHOOSE x \in C17_Rates : \A y \in C17_Rates : x >= y])

\* a tool ran and its one provider query came back with error set: either
\* the provider reported an error or the adapter caught an exception
C18_Case ==
    /\ FlightToolDone \/ HotelToolDone
    /\ provider_log # <<>>
    /\ provider_log[1].answer.kind \in {"error", "raise"}

C18_AdapterError ==
    LET answer == provider_log[1].answer IN
    IF answer.kind = "error" THEN answer.text
    ELSE IF outcome.op = "search_flights" THEN ErrFlightSearchFailed \o answer.text
    ELSE ErrHotelSearchFailed \o answer.text

\* C18: when the provider adapter's response has error set, search_flights /
\* search_hotels returns exactly {"error": <that text>} with no result
\* entries, and a tool invocation never makes more than one provider call.
C18_ProviderErrorPassedThrough ==
    /\ Len(provider_log) <= 1
    /\ C18_Case =>
          /\ outcome.kind = "return"
          /\ outcome.payload = [error |-> C18_AdapterError]

C18_Witness ==
    /\ C18_Case
    /\ outcome.op = "search_hotels"
    /\ provider_log[1].answer.kind = "error"
    /\ outcome.payload = [error |-> ErrProviderRejected]

(***************************************************************************)
(* C19.  Whenever OPENAI_API_KEY or SERPAPI_API_KEY was not provided to    *)
(* the process, GET /health/ready answers HTTP 503, before and after the   *)
(* application has loaded its settings.                                    *)
(***************************************************************************)
C19_NotProvided(k) == ~Truthy(GetEnv(process_environ, k))

C19_ReadyServed == http_exchange.path = "/health/ready"

\* C19: a readiness probe of a process that was started without one of the
\* two keys is answered 503.  The code does not keep it: the fallback of
\* get_settings writes placeholder keys into os.environ, and the probe,
\* which reads os.environ, answers 200 "ready" from then on.
C19_ReadyIs503WithoutKeys ==
    (C19_ReadyServed /\ \E k \in EnvKeys : C19_NotProvided(k))
        => http_exchange.response.status = 503

(***************************************************************************)
(* C20.  POST /chat/hotel-search with a valid HotelSearchRequest body      *)
(* runs the search on the provider adapter and answers 200 with the        *)
(* adapter's HotelSearchResponse.                                          *)
(***************************************************************************)
C20_ValidBodyServed ==
    /\ http_exchange.path = "/chat/hotel-search"
    /\ ~HotelSearchRequest(http_exchange.body).raised

\* C20: a valid body is answered 200 with the HotelSearchResponse the
\* adapter produced for it.  The code does not keep it: the endpoint imports
\* the name HotelService, which services/hotel_service.py does not define,
\* so every valid body is answered 500.
C20_ValidBodyAnswered200 ==
    C20_ValidBodyServed
        => \E answer \in HotelProviderAnswers :
               http_exchange.response =
                   HttpOk(ServiceSearchHotels(HotelSearchRequest(http_exchange.body).request,
                                              answer))

(***************************************************************************)
(* C21.  POST /chat/extract-params with a non-empty message returns the    *)
(* parameters of the keyword/regex extractor with status "success".        *)
(***************************************************************************)
C21_NonEmptyMessageServed ==
    /\ http_exchange.path = "/chat/extract-params"
    /\ http_exchange.message # <<>>

\* C21: a non-empty message is answered 200 with status "success" and the
\* parameters FlightSearchAgent.extract_flight_params extracts from it (so
\* that the same message always gets the same answer).  The code does not
\* keep it: the endpoint calls extract_flight_params on the TravelAgent,
\* which has no such method, and answers 500.
C21_ExtractorOutputReturned ==
    C21_NonEmptyMessageServed
        => /\ http_exchange.response.status = 200
           /\ http_exchange.response.body.status = "success"
           /\ http_exchange.response.body.extracted_params =
                  extract_flight_params(http_exchange.message).params

(***************************************************************************)
(* C22.  An error that leaves request handling reaches the client with the *)
(* status fixed for its kind (external-API 502, rate-limit 429, validation *)
(* 422, authentication 401, authorization 403, unclassified 500).          *)
(***************************************************************************)
C22_MessageServed == http_exchange.path = "/chat/message"

C23_Converted == outcome.kind # "none" /\ outcome.op = "to_search_request"

C23_Malformed(o) == Truthy(o) /\ IsNone(ParseDate(Val(o)))

C23_FlightUnusable(p) ==
    \/ ~Truthy(p.departure_location)
    \/ ~Truthy(p.arrival_location)
    \/ ~Truthy(p.departure_date)
    \/ C23_Malformed(p.departure_date)
    \/ C23_Malformed(p.return_date)

C23_HotelUnusable(p) ==
    \/ ~Truthy(p.location)
    \/ ~Truthy(p.check_in_date)
    \/ ~Truthy(p.check_out_date)
    \/ C23_Malformed(p.check_in_date)
    \/ C23_Malformed(p.check_out_date)

C23_FlightComplete(p, r) ==
    /\ r.departure_id = Val(p.departure_location) /\ r.departure_id # <<>>
    /\ r.arrival_id = Val(p.arrival_location) /\ r.arrival_id # <<>>
    /\ Some(r.outbound_date) = ParseDate(Val(p.departure_date))

C23_HotelComplete(p, r) ==
    /\ r.q = Val(p.location) /\ r.q # <<>>
    /\ Some(r.check_in_date) = ParseDate(Val(p.check_in_date))
    /\ Some(r.check_out_date) = ParseDate(Val(p.check_out_date))

\* C23: to_search_request returns (it never raises); it returns None when a
\* required field is None or empty or a date string does not parse, and a
\* request it does return carries every required field of the params.
C23_NoRequestFromIncompleteParams ==
    C23_Converted =>
        /\ outcome.kind = "return"
        /\ call.op = "search_flights" =>
              /\ C23_FlightUnusable(outcome.params) => outcome.value = None
              /\ outcome.value # None
                     => C23_FlightComplete(outcome.params, Val(outcome.value))
        /\ call.op = "search_hotels" =>
              /\ C23_HotelUnusable(outcome.params) => outcome.value = None
              /\ outcome.value # None
                     => C23_HotelComplete(outcome.params, Val(outcome.value))

\* a flight conversion stopped by an absent arrival location
C23_Witness ==
    /\ C23_Converted
    /\ call.op = "search_flights"
    /\ outcome.params.arrival_location = None
    /\ Truthy(outcome.params.departure_location)
    /\ ~C23_Malformed(outcome.params.departure_date)
    /\ outcome.value = None

(***************************************************************************)
(* C24.  Per domain at most one provider client is ever constructed and    *)
(* every get_serpapi_service / get_hotel_service call returns it, also     *)
(* when the first calls come from different threads at the same time.      *)
(***************************************************************************)
C24_Returned(d) ==
    {Val(tool_threads[t].result).instance :
        t \in {u \in Threads : /\ tool_threads[u].pc = "done"
                               /\ tool_threads[u].domain = d
                               /\ ~Val(tool_threads[u].result).raised}}

\* C24: for each domain no more than one client has been constructed, the
\* calls that returned all returned the same instance, and the global holds
\* the first client constructed (it was never reassigned).  The code does
\* not keep it: two threads that both find the global None each construct a
\* client and each store it.
C24_OneClientPerDomain ==
    \A d \in Domains :
        /\ clients_made[d] <= 1
        /\ Cardinality(C24_Returned(d)) <= 1
        /\ ~IsNone(ServiceGlobal(d)) => Val(ServiceGlobal(d)).id = 1

\* ---- C25 ----------------------------------------------------------------
\* The timestamps a key holds that are strictly newer than now - window
C25_Live(ledger, key, now) ==
    IF key \in DOMAIN ledger
    THEN Cardinality({i \in DOMAIN ledger[key] : ledger[key][i] > now - rate_config.window})
    ELSE 0

\* A step in which is_allowed was called
C25_CallStep ==
    clock' = clock /\ (rate_call' # rate_call \/ requests' # requests)

\* C25: under a limit (>= 0) and window that stay fixed and a clock that
\* never goes back, after every step no key holds more than limit admitted
\* timestamps inside the half-open window (now - window, now], and a call
\* of is_allowed is denied exactly when its key already held at least limit
\* timestamps strictly newer than now - window.
C25_WindowNeverExceeded ==
    [][ /\ \A key \in DOMAIN requests' :
              /\ C25_Live(requests', key, clock') <= rate_config.limit
              /\ \A i \in DOMAIN requests'[key] : requests'[key][i] <= clock'
        /\ C25_CallStep =>
              (rate_call'.allowed = FALSE
                  <=> C25_Live(requests, rate_call'.key, clock) >= rate_config.limit)
      ]_vars

\* A request was denied one second after the admission that filled the
\* limit of its key, inside a window of two seconds.
C25_Witness ==
    /\ rate_call.key # "none"
    /\ rate_config.limit = 1
    /\ rate_config.window = 2
    /\ rate_call.allowed = FALSE
    /\ rate_call.now = 1
    /\ requests[rate_call.key] = <<0>>

\* ---- C30 ----------------------------------------------------------------
\* The list is_allowed prunes for the key of the call
C30_Pruned(key) ==
    IF key \in DOMAIN requests
    THEN SelectSeq(requests[key], LAMBDA t : t > clock - rate_config.window)
    ELSE <<>>

\* C30: a call of is_allowed changes only the timestamp list of its own
\* key: every other key keeps its list, a denied call leaves the key with
\* its pruned list and no new timestamp, an admitted call appends now.
C30_OnlyOwnKeyTouched ==
    [][ C25_CallStep =>
          LET key == rate_call'.key
          IN  /\ DOMAIN requests' = DOMAIN requests \cup {key}
              /\ \A k \in DOMAIN requests : k # key => requests'[k] = requests[k]
              /\ requests'[key] = IF rate_call'.allowed
                                  THEN Append(C30_Pruned(key), clock)
                                  ELSE C30_Pruned(key)
      ]_vars

\* A denied call for one key while another key holds timestamps.
C30_Witness ==
    /\ rate_call.key # "none"
    /\ rate_call.allowed = FALSE
    /\ rate_config.limit = 1
    /\ Len(requests[rate_call.key]) = 1
    /\ \E k \in DOMAIN requests : k # rate_call.key /\ Len(requests[k]) = 1

\* ---- C26 ----------------------------------------------------------------
\* The provider queries search_flights issued in the call
C26_Queries ==
    IF call.op = "search_flights"
    THEN {build_search_params(provider_log[i].request) :
              i \in {j \in DOMAIN provider_log : provider_log[j].engine = "google_flights"}}
    ELSE {}

\* C26: every provider query of search_flights whose trip type is
\* round-trip carries a return date, whatever trip-type token was passed.
C26_RoundTripQueryHasReturnDate ==
    \A q \in C26_Queries : q.type = TripTypeValue("ROUND_TRIP") => ~IsNone(q.return_date)

\* ---- C27 ----------------------------------------------------------------
\* C27: the thread_id of the turn's ChatResponse is the thread id under
\* which the message was submitted to the agent runtime, also when the
\* request carried none and the turn ends in the degraded response.
C27_ResponseThreadIsSubmittedThread ==
    ~IsNone(response) => Val(response).thread_id = Val(submitted)

\* ---- C28 ----------------------------------------------------------------
\* str.strip() leaves nothing: the empty string or whitespace only
C28_Blank(location) ==
    \A i \in DOMAIN location : location[i] \in {" ", "\t", "\n", "\r"}

\* C28: search_flights issues no provider request when the departure or
\* the arrival location is empty or whitespace only.
C28_NoRequestForBlankLocation ==
    (/\ call.op = "search_flights"
     /\ \/ C28_Blank(call.args.departure_location)
        \/ C28_Blank(call.args.arrival_location))
    => \A i \in DOMAIN provider_log : provider_log[i].engine # "google_flights"

\* ---- C29 ----------------------------------------------------------------
\* What GET /chat/conversation/{thread_id} answers when the agent is `global`
C29_Get(global, thread) ==
    conversation_state_endpoint(thread, global, None).response

=============================================================================
